---------------------------- MODULE Spec2Model ----------------------------
(***************************************************************************)
(* Model of the frame sampling / region application core of the video      *)
(* redaction agent:                                                        *)
(*   VideoProcessor.extract_frames          (utils/video_processor.py)     *)
(*   VideoProcessor.apply_mosaic_regions    (utils/video_processor.py)     *)
(*   VideoProcessor._apply_mosaic_to_frame  (utils/video_processor.py)     *)
(*   simple_interpolation_func              (examples/validation_demo.py)  *)
(*                                                                         *)
(* A video is a header (does the file exist, does the capture open, the    *)
(* frame rate it reports) and a finite sequence of decodable frames.  A    *)
(* frame is a sequence of NumBlocks uniformly coloured blocks of           *)
(* PixelsPerBlock pixels each; a colour is a <<B, G, R>> triple.           *)
(***************************************************************************)
EXTENDS Integers, Sequences, FiniteSets

\* ------------------------------------------------------------------ bounds
MaxVideoLen    == 4   \* decodable frames of an enumerated video
MaxRate        == 3   \* largest sample_rate argument enumerated
MaxFrames      == 3   \* largest max_frames argument enumerated
PixelsPerBlock == 600 \* pixels of one uniformly coloured block of a frame
MaxKey         == 4   \* largest frame_id of an enumerated region
MaxRegions     == 2   \* longest enumerated region list
MaxDim         == 2   \* largest enumerated frame width / height
MaxTests       == 2   \* longest enumerated list of test frame ids
MaxCalls       == 2   \* validator calls of one enumerated run
MaxReportCalls == 3   \* validator calls of one enumerated reporting run

\* ------------------------------------------------------- program constants
DEFAULT_SAMPLE_RATE    == 30     \* Config.DEFAULT_SAMPLE_RATE
MAX_FRAMES_PER_REQUEST == 20     \* Config.MAX_FRAMES_PER_REQUEST
motion_threshold       == 1000   \* extract_frames: motion_threshold
DiffThreshold          == 30     \* _calculate_motion_score: cv2.threshold level
MotionFailureScore     == 10000  \* _calculate_motion_score: except branch

\* ------------------------------------------------------------------ helpers
Max(a, b) == IF a >= b THEN a ELSE b
Min(a, b) == IF a <= b THEN a ELSE b
Abs(a)    == IF a < 0 THEN -a ELSE a

SeqsUpTo(S, n) == UNION {[1..k -> S] : k \in 0..n}

\* ------------------------------------------------------------------ frames
Black == <<0, 0, 0>>
Grey30 == <<30, 30, 30>>
Red   == <<0, 0, 255>>

FrameA == <<Black, Black>>
FrameB == <<Grey30, Red>>
FrameC == <<Red, Black>>
FrameKinds == {FrameA, FrameB, FrameC}

\* cv2.cvtColor(frame, cv2.COLOR_BGR2GRAY) on one colour: the rounded luma
\* 0.299 R + 0.587 G + 0.114 B.
GrayOf(c) == (299 * c[3] + 587 * c[2] + 114 * c[1] + 500) \div 1000

\* cv2.cvtColor(frame, cv2.COLOR_BGR2GRAY) on a frame.
ToGray(frame) == [b \in DOMAIN frame |-> GrayOf(frame[b])]

\* prev_frame = None
NoFrame == <<>>

\* VideoProcessor._calculate_motion_score: absdiff of the grey frames, binary
\* threshold (strictly above the level), count of the non-zero pixels; the
\* except branch (frames of different shape) returns the failure score.
CalculateMotionScore(prev_frame, current_frame) ==
    LET current_gray == ToGray(current_frame)
    IN  IF Len(prev_frame) # Len(current_gray)
        THEN MotionFailureScore
        ELSE PixelsPerBlock *
             Cardinality({b \in DOMAIN current_gray :
                             Abs(prev_frame[b] - current_gray[b]) > DiffThreshold})


\* ------------------------------------------------------------------- state
VARIABLES
    \* the call's inputs
    video,                 \* [status, fps, frames]: the file behind video_path
    arg_sample_rate,       \* sample_rate argument (0 stands for None / 0)
    arg_max_frames,        \* max_frames argument (0 stands for None / 0)
    use_motion_detection,  \* use_motion_detection argument
    \* position of the run
    pc,
    \* extract_frames locals
    sample_rate, max_frames, frame_count, extracted_count, frames, prev_frame,
    extract_result,        \* what extract_frames handed to its caller
    \* apply_mosaic_regions arguments, locals and result
    regions, frame_regions_map, mosaic_frame_count, out_frames, writer_open,
    apply_result,
    \* apply_mosaic_regions: the capture's reported size, whether the capture
    \* was constructed, and the arguments the writer was constructed with
    resolution, cap_opened, writer_args,
    \* TrackingValidator: the result list, what each validate_* call returned
    \* (in call order), the last call, the calls the run will still make, the
    \* arguments the run passes to the validator, and the state of the sample
    \* image files
    validation_results, call_log, last_call, calls_left, call_args, file_state,
    \* region resolution (validate_tracking_interpolation + simple_interpolation_func)
    sorted_frame_ids, test_frame_id, resolve_result,
    \* _apply_mosaic_to_frame on one region
    shape, strength, bbox, clamped, mosaic_size,
    \* mosaic_video_regions: the regions_data argument (parsed JSON) and what
    \* the tool handed to its caller
    regions_data, tool_result,
    \* process_request: the region objects it serializes for the mosaic tool
    enhanced_regions,
    \* _apply_mosaic_to_frame on one frame: the frame as it was handed in, the
    \* frame array as it is now, and per region done its clamped box, the roi
    \* it read and the mosaic it wrote
    image0, image, roi_log,
    \* temp/frames: file number k (frame_k.jpg) -> the frame last written to
    \* it; and a second extract_frames run on another video: the frames it
    \* will emit and those it has emitted
    frame_files, other_max, other_count,
    \* enhance_annotation_with_tracking: its seed_regions argument and what
    \* analyze_video_content gave (a region list or an exception)
    seed_regions, llm_result,
    \* output/annotations: the session directories in creation order, each
    \* with its session.json fields and its regions.json; the regions.json in
    \* the user's download folder; the last process_request call; and the
    \* calls the run will still make
    sessions, download, last_request, requests_left

inputVars   == <<video, arg_sample_rate, arg_max_frames, use_motion_detection>>
extractVars == <<sample_rate, max_frames, frame_count, extracted_count, frames,
                 prev_frame, extract_result>>
applyVars   == <<regions, frame_regions_map, mosaic_frame_count, out_frames,
                 writer_open, apply_result>>
resolveVars == <<sorted_frame_ids, test_frame_id, resolve_result>>
clampVars   == <<shape, strength, bbox, clamped, mosaic_size>>
captureVars == <<resolution, cap_opened, writer_args>>
validatorVars == <<validation_results, call_log, last_call, calls_left,
                   call_args, file_state>>
toolVars    == <<regions_data, tool_result, enhanced_regions>>
pixelVars   == <<image0, image, roi_log>>
storeVars   == <<frame_files, other_max, other_count>>
agentVars   == <<seed_regions, llm_result, sessions, download, last_request,
                 requests_left>>
extVars     == <<toolVars, pixelVars, storeVars, agentVars>>
vars == <<inputVars, pc, extractVars, applyVars, resolveVars, clampVars,
          captureVars, validatorVars, extVars>>

\* ------------------------------------------------------------------ inputs
\* What the file system and the capture report for video_path: a missing
\* file, a file the capture cannot open, or an opened stream with its frame
\* rate (a stream may report a frame rate of 0).
VideoHeaders == {[status |-> "missing", fps |-> 0],
                 [status |-> "unopenable", fps |-> 0],
                 [status |-> "ok", fps |-> 0],
                 [status |-> "ok", fps |-> 30]}

MakeVideo(header, fs) == [status |-> header.status, fps |-> header.fps, frames |-> fs]

Videos == {MakeVideo(h, fs) : h \in VideoHeaders, fs \in SeqsUpTo(FrameKinds, MaxVideoLen)}

\* Scenario A: 100 identical frames, sample_rate 30, max_frames 10.
ScenarioA == [video |-> MakeVideo([status |-> "ok", fps |-> 30], [i \in 1..100 |-> FrameA]),
              sample_rate |-> 30, max_frames |-> 10]

Result(kind, value) == [kind |-> kind, value |-> value]
NoResult == Result("none", <<>>)
\* raise VideoProcessingError(...)
Raised == Result("error", "VideoProcessingError")

\* A video region: DetectionRegion reduced to the two fields the core reads.
Region(frame_id, box) == [frame_id |-> frame_id, bbox |-> box]
BoxR1 == <<0, 0, 1, 1>>
BoxR2 == <<1, 1, 2, 2>>
Boxes == {BoxR1, BoxR2}

EmptyMap == [k \in {} |-> <<>>]

\* What the capture reports as CAP_PROP_FRAME_WIDTH / CAP_PROP_FRAME_HEIGHT.
Resolutions == {[width |-> 2, height |-> 1], [width |-> 1920, height |-> 1080]}

\* No cv2.VideoWriter was constructed (no output file exists).
NoWriter == <<>>

\* No validator operation was called yet.
NoCall == [op |-> "none", args |-> <<>>, result |-> <<>>, out |-> <<>>]

\* video_info=None
NoVideoInfo == <<>>

\* The arguments a run passes to the validator when it leaves them at their
\* defaults: expected_count=None, video_info=None, no test frames,
\* sample_frames=None.
DefaultArgs == [expected_count |-> 0,
                video_info |-> NoVideoInfo,
                test_frame_ids |-> <<>>,
                interpolation_func |-> "simple_interpolation_func",
                total_video_frames |-> 4,
                mosaic_func |-> "pixelate"]

\* No validator is attached to the run.
NoValidator == calls_left = 0 /\ call_args = DefaultArgs

ExtractIdle == /\ sample_rate = 0 /\ max_frames = 0 /\ frame_count = 0
               /\ extracted_count = 0 /\ frames = <<>> /\ prev_frame = NoFrame
               /\ extract_result = NoResult
ApplyIdle   == /\ regions = <<>> /\ frame_regions_map = EmptyMap
               /\ mosaic_frame_count = 0 /\ out_frames = <<>>
               /\ writer_open = FALSE /\ apply_result = NoResult
ResolveIdle == /\ sorted_frame_ids = <<>> /\ test_frame_id = 0
               /\ resolve_result = NoResult
ClampIdle   == /\ shape = <<1, 1>> /\ strength = 0 /\ bbox = <<0, 0, 0, 0>>
               /\ clamped = <<>> /\ mosaic_size = 0
CaptureIdle == /\ cap_opened = FALSE /\ writer_args = NoWriter
ValidatorIdle == /\ validation_results = <<>> /\ call_log = <<>>
                 /\ last_call = NoCall /\ file_state = EmptyMap
ToolIdle    == /\ regions_data = <<>> /\ tool_result = NoResult
               /\ enhanced_regions = <<>>
PixelIdle   == /\ image0 = <<>> /\ image = <<>> /\ roi_log = <<>>
StoreIdle   == /\ frame_files = EmptyMap /\ other_max = 0 /\ other_count = 0
\* No file at a path.
NoFile == [kind |-> "absent"]

\* No process_request call has been made.
NoRequest == [op |-> "none"]

EnhanceIdle == /\ seed_regions = <<>> /\ llm_result = NoResult
SessionIdle == /\ sessions = <<>> /\ download = NoFile
               /\ last_request = NoRequest /\ requests_left = 0
AgentIdle   == EnhanceIdle /\ SessionIdle
ExtIdle     == ToolIdle /\ PixelIdle /\ StoreIdle /\ AgentIdle
InputIdle   == /\ video = MakeVideo([status |-> "ok", fps |-> 30], <<>>)
               /\ arg_sample_rate = 0 /\ arg_max_frames = 0
               /\ use_motion_detection = FALSE

\* ---------------------------------------------------------- extract_frames
\* `x or default` of Python: None and 0 give the default.
OrDefault(x, default) == IF x = 0 THEN default ELSE x

\* Mutant of IsCandidate: the sampling phase shifted by one frame.
IsCandidateShifted(count, rate) == (count + 1) % rate = 0

\* frame_count % sample_rate == 0
IsCandidate(count, rate) == count % rate = 0

\* Mutant of ShouldExtract: the motion check compares against nothing once a
\* frame was emitted (every candidate is emitted).
ShouldExtractNoMotion(count, rate, motion, prev, frame, extracted) ==
    IsCandidate(count, rate)

\* should_extract of one loop iteration.
ShouldExtract(count, rate, motion, prev, frame, extracted) ==
    /\ IsCandidate(count, rate)
    /\ ~ (/\ motion
          /\ prev # NoFrame
          /\ CalculateMotionScore(prev, frame) < motion_threshold
          /\ extracted > 0)

\* Mutant of NewFrameInfo: the sample numbered by its decoded index.
NewFrameInfoByIndex(extracted, count, fps) ==
    [frame_id |-> count + 1, timestamp |-> <<count, fps>>, index |-> count]

\* FrameInfo(frame_id=extracted_count + 1, timestamp=frame_count / fps, ...);
\* the timestamp is kept as the fraction <<numerator, denominator>>, and
\* index records the decoded frame the image artifact was written from.
NewFrameInfo(extracted, count, fps) ==
    [frame_id |-> extracted + 1, timestamp |-> <<count, fps>>, index |-> count]

\* Mutant of LoopContinues: one emission too many is allowed.
LoopContinuesInclusive(extracted, limit) == extracted <= limit

\* while cap.isOpened() and extracted_count < max_frames
LoopContinues(extracted, limit) == extracted < limit

\* Mutant of NextPrevFrame: every decoded candidate becomes the reference.
NextPrevFrameAlways(motion, emitted, prev, frame) ==
    IF motion THEN ToGray(frame) ELSE prev

\* prev_frame after one iteration: replaced only when the frame was emitted.
NextPrevFrame(motion, emitted, prev, frame) ==
    IF emitted /\ motion THEN ToGray(frame) ELSE prev

\* Mutant of WrapException: the exception leaves the call as it was raised.
WrapExceptionNot(e) == Result("error", e)

\* except Exception as e: raise VideoProcessingError(f"... failed: {str(e)}")
WrapException(e) == Raised

\* if not os.path.exists(video_path): raise VideoProcessingError
ExtractNotFound ==
    /\ pc = "init"
    /\ video.status = "missing"
    /\ pc' = "extract_error"
    /\ extract_result' = Raised
    /\ UNCHANGED <<inputVars, sample_rate, max_frames, frame_count,
                   extracted_count, frames, prev_frame, applyVars,
                   resolveVars, clampVars, captureVars, validatorVars, extVars>>

\* if not cap.isOpened(): raise VideoProcessingError (re-raised by the handler)
ExtractCannotOpen ==
    /\ pc = "init"
    /\ video.status = "unopenable"
    /\ sample_rate' = OrDefault(arg_sample_rate, DEFAULT_SAMPLE_RATE)
    /\ max_frames' = OrDefault(arg_max_frames, MAX_FRAMES_PER_REQUEST)
    /\ pc' = "extract_error"
    /\ extract_result' = Raised
    /\ UNCHANGED <<inputVars, frame_count, extracted_count, frames, prev_frame,
                   applyVars, resolveVars, clampVars, captureVars, validatorVars, extVars>>

\* The capture opens: defaults applied, locals initialised.
ExtractOpen ==
    /\ pc = "init"
    /\ video.status = "ok"
    /\ sample_rate' = OrDefault(arg_sample_rate, DEFAULT_SAMPLE_RATE)
    /\ max_frames' = OrDefault(arg_max_frames, MAX_FRAMES_PER_REQUEST)
    /\ frame_count' = 0
    /\ extracted_count' = 0
    /\ frames' = <<>>
    /\ prev_frame' = NoFrame
    /\ pc' = "extracting"
    /\ UNCHANGED <<inputVars, extract_result, applyVars, resolveVars, clampVars, captureVars, validatorVars, extVars>>

\* One iteration of the loop whose cap.read() returns a frame.
\* cv2.imwrite(os.path.join(temp_dir, f"frame_{k}.jpg"), frame): the file
\* holds the frame of decoded index `index` of run `run`, whatever it held.
WriteFrame(files, k, run, index) ==
    [n \in DOMAIN files \cup {k} |->
        IF n = k THEN [run |-> run, index |-> index] ELSE files[n]]

ExtractStep ==
    /\ pc = "extracting"
    /\ LoopContinues(extracted_count, max_frames)
    /\ frame_count < Len(video.frames)
    /\ LET frame == video.frames[frame_count + 1]
           should_extract == ShouldExtract(frame_count, sample_rate,
                                           use_motion_detection, prev_frame,
                                           frame, extracted_count)
       IN  IF should_extract /\ video.fps = 0
           THEN \* frame_count / fps raises ZeroDivisionError, wrapped
                /\ pc' = "extract_error"
                /\ extract_result' = WrapException("ZeroDivisionError")
                /\ UNCHANGED <<frame_count, extracted_count, frames, prev_frame,
                               frame_files>>
           ELSE /\ frames' = IF should_extract
                             THEN Append(frames, NewFrameInfo(extracted_count,
                                                              frame_count, video.fps))
                             ELSE frames
                /\ extracted_count' = IF should_extract THEN extracted_count + 1
                                      ELSE extracted_count
                /\ prev_frame' = NextPrevFrame(use_motion_detection, should_extract,
                                               prev_frame, frame)
                /\ frame_files' = IF should_extract
                                  THEN WriteFrame(frame_files, extracted_count + 1,
                                                  1, frame_count)
                                  ELSE frame_files
                /\ frame_count' = frame_count + 1
                /\ UNCHANGED <<pc, extract_result>>
    /\ UNCHANGED <<inputVars, sample_rate, max_frames, applyVars, resolveVars,
                   clampVars, captureVars, validatorVars, toolVars, pixelVars,
                   other_max, other_count, agentVars>>

\* The should_extract branch of a second extract_frames run, on another
\* video: its next sample is written to frame_{extracted_count + 1}.jpg of
\* the same directory.
OtherRunStep ==
    /\ other_count < other_max
    /\ frame_files' = WriteFrame(frame_files, other_count + 1, 2, other_count)
    /\ other_count' = other_count + 1
    /\ UNCHANGED <<inputVars, pc, extractVars, applyVars, resolveVars, clampVars,
                   captureVars, validatorVars, toolVars, pixelVars, other_max,
                   agentVars>>

\* The loop ends (limit reached, or cap.read() returns no frame):
\* cap.release(); return frames
ExtractEnd ==
    /\ pc = "extracting"
    /\ ~ (LoopContinues(extracted_count, max_frames) /\ frame_count < Len(video.frames))
    /\ pc' = "extracted"
    /\ extract_result' = Result("frames", frames)
    /\ UNCHANGED <<inputVars, sample_rate, max_frames, frame_count,
                   extracted_count, frames, prev_frame, applyVars, resolveVars,
                   clampVars, captureVars, validatorVars, extVars>>

\* ---------------------------------------------------- apply_mosaic_regions
\* The regions handed to the mosaic tool after extraction: one region for each
\* frame sample the annotator / detector marked (mosaic_video_regions builds
\* the DetectionRegion list and calls apply_mosaic_regions).
RECURSIVE RegionsFor(_, _)
RegionsFor(samples, marked) ==
    IF samples = <<>> THEN <<>>
    ELSE LET rest == RegionsFor(Tail(samples), marked)
         IN  IF Head(samples).frame_id \in marked
             THEN <<Region(Head(samples).frame_id, BoxR1)>> \o rest
             ELSE rest

Annotate ==
    /\ pc = "extracted"
    /\ \E marked \in SUBSET {frames[i].frame_id : i \in DOMAIN frames} :
          regions' = RegionsFor(frames, marked)
    /\ pc' = "annotated"
    /\ UNCHANGED <<inputVars, extractVars, frame_regions_map, mosaic_frame_count,
                   out_frames, writer_open, apply_result, resolveVars, clampVars, captureVars, validatorVars, extVars>>

\* VideoProcessor._group_regions_by_frame (and the same loop of
\* validate_tracking_interpolation): frame_id -> its regions, in list order.
\* frame_regions[frame_id] = value, on a dict
DictSet(d, key, value) ==
    [k \in DOMAIN d \cup {key} |-> IF k = key THEN value ELSE d[k]]

\* The loop of _group_regions_by_frame from the i-th region on: a frame_id
\* seen for the first time gets an empty list, then the region is appended to
\* the list of its frame_id.
RECURSIVE GroupLoop(_, _, _)
GroupLoop(rs, i, frame_regions) ==
    IF i > Len(rs) THEN frame_regions
    ELSE LET frame_id == rs[i].frame_id
             started == IF frame_id \notin DOMAIN frame_regions
                        THEN DictSet(frame_regions, frame_id, <<>>)
                        ELSE frame_regions
         IN  GroupLoop(rs, i + 1,
                       DictSet(started, frame_id, Append(started[frame_id], rs[i])))

\* Mutant of GroupRegionsByFrame: a frame_id keeps only its last region.
GroupRegionsByFrameLast(rs) ==
    [f \in {rs[i].frame_id : i \in DOMAIN rs} |->
        LET own == SelectSeq(rs, LAMBDA r : r.frame_id = f)
        IN  <<own[Len(own)]>>]

GroupRegionsByFrame(rs) == GroupLoop(rs, 1, EmptyMap)

\* VideoProcessor._frame_count_to_frame_id
FrameCountToFrameId(count, rs) == count + 1

\* The regions apply_mosaic_regions mosaics on the frame with this frame_id:
\* those of the map when frame_id is a key, none otherwise.
RegionsOfFrame(frame_id, map) ==
    IF frame_id \in DOMAIN map THEN map[frame_id] ELSE <<>>

\* Mutant of VideoWriterArgs: the frame size passed as (height, width).
VideoWriterArgsSwapped(fps, width, height) == <<fps, height, width>>

\* cv2.VideoWriter(output_path, fourcc, fps, (width, height)): the frame rate
\* and frame size the output file is created with.
VideoWriterArgs(fps, width, height) == <<fps, width, height>>

\* if not os.path.exists(video_path): raise VideoProcessingError
ApplyNotFound ==
    /\ pc = "annotated"
    /\ video.status = "missing"
    /\ pc' = "apply_error"
    /\ apply_result' = Raised
    /\ UNCHANGED <<inputVars, extractVars, regions, frame_regions_map,
                   mosaic_frame_count, out_frames, writer_open, resolveVars,
                   clampVars, captureVars, validatorVars, extVars>>

\* if not regions: raise VideoProcessingError
ApplyNoRegions ==
    /\ pc = "annotated"
    /\ video.status # "missing"
    /\ regions = <<>>
    /\ pc' = "apply_error"
    /\ apply_result' = Raised
    /\ UNCHANGED <<inputVars, extractVars, regions, frame_regions_map,
                   mosaic_frame_count, out_frames, writer_open, resolveVars,
                   clampVars, captureVars, validatorVars, extVars>>

\* if not cap.isOpened(): raise VideoProcessingError (re-raised by the handler)
ApplyCannotOpen ==
    /\ pc = "annotated"
    /\ video.status = "unopenable"
    /\ regions # <<>>
    /\ cap_opened' = TRUE
    /\ pc' = "apply_error"
    /\ apply_result' = Raised
    /\ UNCHANGED <<inputVars, extractVars, regions, frame_regions_map,
                   mosaic_frame_count, out_frames, writer_open, resolveVars,
                   clampVars, resolution, writer_args, validatorVars, extVars>>

\* Mutant of ApplyOpen: the capture and the writer are created without the
\* region list having been checked.
ApplyOpenUnchecked ==
    /\ pc = "annotated"
    /\ video.status = "ok"
    /\ cap_opened' = TRUE
    /\ writer_args' = VideoWriterArgs(video.fps, resolution.width, resolution.height)
    /\ writer_open' = TRUE
    /\ frame_regions_map' = GroupRegionsByFrame(regions)
    /\ mosaic_frame_count' = 0
    /\ out_frames' = <<>>
    /\ pc' = "applying"
    /\ UNCHANGED <<inputVars, extractVars, regions, apply_result, resolveVars,
                   clampVars, resolution, validatorVars, extVars>>

\* The capture opens: the writer is created with the capture's frame rate and
\* size, and the regions are grouped.
ApplyOpen ==
    /\ pc = "annotated"
    /\ video.status = "ok"
    /\ regions # <<>>
    /\ cap_opened' = TRUE
    /\ writer_args' = VideoWriterArgs(video.fps, resolution.width, resolution.height)
    /\ writer_open' = TRUE
    /\ frame_regions_map' = GroupRegionsByFrame(regions)
    /\ mosaic_frame_count' = 0
    /\ out_frames' = <<>>
    /\ pc' = "applying"
    /\ UNCHANGED <<inputVars, extractVars, regions, apply_result, resolveVars,
                   clampVars, resolution, validatorVars, extVars>>

\* One iteration of the loop whose cap.read() returns a frame: the frame is
\* mosaicked with the regions of its frame_id, then written.  An output frame
\* records the decoded index it came from and the regions mosaicked on it.
ApplyStep ==
    /\ pc = "applying"
    /\ mosaic_frame_count < Len(video.frames)
    /\ LET frame_id == FrameCountToFrameId(mosaic_frame_count, regions)
       IN  out_frames' = Append(out_frames,
                                [index |-> mosaic_frame_count,
                                 regions |-> RegionsOfFrame(frame_id, frame_regions_map)])
    /\ mosaic_frame_count' = mosaic_frame_count + 1
    /\ UNCHANGED <<inputVars, pc, extractVars, regions, frame_regions_map,
                   writer_open, apply_result, resolveVars, clampVars, captureVars, validatorVars, extVars>>

\* One iteration of the loop in which a library call (the mosaic's cv2.resize,
\* out.write) raises: the handler turns the exception into a
\* VideoProcessingError; the frames written so far stay in the output file,
\* which is not released.
ApplyStepRaises ==
    /\ pc = "applying"
    /\ mosaic_frame_count < Len(video.frames)
    /\ pc' = "apply_error"
    /\ apply_result' = WrapException("cv2.error")
    /\ UNCHANGED <<inputVars, extractVars, regions, frame_regions_map,
                   mosaic_frame_count, out_frames, writer_open, resolveVars,
                   clampVars, captureVars, validatorVars, extVars>>

\* cap.read() returns no frame: cap.release(); out.release(); return output_path
ApplyEnd ==
    /\ pc = "applying"
    /\ mosaic_frame_count = Len(video.frames)
    /\ writer_open' = FALSE
    /\ apply_result' = Result("output_path", out_frames)
    /\ pc' = "applied"
    /\ UNCHANGED <<inputVars, extractVars, regions, frame_regions_map,
                   mosaic_frame_count, out_frames, resolveVars, clampVars, captureVars, validatorVars, extVars>>

\* ------------------------------------------------------- region resolution
\* sorted(frame_regions_map.keys())
RECURSIVE SortedSeq(_)
SortedSeq(S) ==
    IF S = {} THEN <<>>
    ELSE LET least == CHOOSE k \in S : \A j \in S : k <= j
         IN  <<least>> \o SortedSeq(S \ {least})

\* Mutant of MinByDistance: a later element replaces the best on a tie.
RECURSIVE MinByDistanceLast(_, _, _, _)
MinByDistanceLast(ids, frame_id, i, best) ==
    IF i > Len(ids) THEN best
    ELSE MinByDistanceLast(ids, frame_id, i + 1,
                           IF Abs(ids[i] - frame_id) <= Abs(best - frame_id)
                           THEN ids[i] ELSE best)

\* min(sorted_frame_ids, key=lambda x: abs(x - frame_id)) from element i on:
\* Python's min keeps the first of the elements with the least key.
RECURSIVE MinByDistance(_, _, _, _)
MinByDistance(ids, frame_id, i, best) ==
    IF i > Len(ids) THEN best
    ELSE MinByDistance(ids, frame_id, i + 1,
                       IF Abs(ids[i] - frame_id) < Abs(best - frame_id)
                       THEN ids[i] ELSE best)

\* simple_interpolation_func; min() of an empty list raises ValueError.
SimpleInterpolationFunc(frame_id, map, ids) ==
    IF frame_id \in DOMAIN map THEN Result("regions", map[frame_id])
    ELSE IF ids = <<>> THEN Result("error", "ValueError")
    ELSE Result("regions", map[MinByDistance(ids, frame_id, 2, ids[1])])

RegionKinds == {Region(f, b) : f \in 1..MaxKey, b \in Boxes}
RegionLists == SeqsUpTo(RegionKinds, MaxRegions)

\* Scenario B: the table {10: [R1], 50: [R2]}, queried at 30.
ScenarioB == [regions |-> <<Region(10, BoxR1), Region(50, BoxR2)>>, frame_id |-> 30]

TestFrameIds == (0..(MaxKey + 1)) \cup {ScenarioB.frame_id}

\* validate_tracking_interpolation: the regions grouped by frame and the keys sorted.
ResolveGroup ==
    /\ pc = "resolve_init"
    /\ frame_regions_map' = GroupRegionsByFrame(regions)
    /\ sorted_frame_ids' = SortedSeq({regions[i].frame_id : i \in DOMAIN regions})
    /\ pc' = "resolve_ready"
    /\ UNCHANGED <<inputVars, extractVars, regions, mosaic_frame_count, out_frames,
                   writer_open, apply_result, test_frame_id, resolve_result,
                   clampVars, captureVars, validatorVars, extVars>>

\* Mutant of ResolveQuery: the resolved list is taken out of the table
\* (frame_regions_map.pop) instead of being read from it.
ResolveQueryPop ==
    /\ pc \in {"resolve_ready", "resolved"}
    /\ \E f \in TestFrameIds :
          /\ test_frame_id' = f
          /\ resolve_result' = SimpleInterpolationFunc(f, frame_regions_map,
                                                       sorted_frame_ids)
          /\ frame_regions_map' =
                [k \in DOMAIN frame_regions_map \ {f} |-> frame_regions_map[k]]
    /\ pc' = "resolved"
    /\ UNCHANGED <<inputVars, extractVars, regions, mosaic_frame_count, out_frames,
                   writer_open, apply_result, sorted_frame_ids, clampVars,
                   captureVars, validatorVars, extVars>>

\* interpolation_func(test_frame_id, frame_regions_map, sorted_frame_ids) for
\* one test frame.
ResolveQuery ==
    /\ pc \in {"resolve_ready", "resolved"}
    /\ \E f \in TestFrameIds :
          /\ test_frame_id' = f
          /\ resolve_result' = SimpleInterpolationFunc(f, frame_regions_map,
                                                       sorted_frame_ids)
    /\ pc' = "resolved"
    /\ UNCHANGED <<inputVars, extractVars, regions, frame_regions_map,
                   mosaic_frame_count, out_frames, writer_open, apply_result,
                   sorted_frame_ids, clampVars, captureVars, validatorVars, extVars>>

\* -------------------------------------------------- _apply_mosaic_to_frame
\* Mutant of ClampBBox: the origin clamped to the frame size, not size - 1.
ClampBBoxOffByOne(box, sh) ==
    LET x == Max(0, Min(box[1], sh.width))
        y == Max(0, Min(box[2], sh.height))
        w == Max(1, Min(box[3], sh.width - x))
        h == Max(1, Min(box[4], sh.height - y))
    IN  <<x, y, w, h>>

\* Mutant of ClampBBox: the extent clamped to the frame size, ignoring the origin.
ClampBBoxIgnoreOrigin(box, sh) ==
    LET x == Max(0, Min(box[1], sh.width - 1))
        y == Max(0, Min(box[2], sh.height - 1))
        w == Max(1, Min(box[3], sh.width))
        h == Max(1, Min(box[4], sh.height))
    IN  <<x, y, w, h>>

\* The clamp step: frame.shape[1] is the width, frame.shape[0] the height.
ClampBBox(box, sh) ==
    LET x == Max(0, Min(box[1], sh.width - 1))
        y == Max(0, Min(box[2], sh.height - 1))
        w == Max(1, Min(box[3], sh.width - x))
        h == Max(1, Min(box[4], sh.height - y))
    IN  <<x, y, w, h>>

\* Mutant of MosaicSize: the shorter side is not halved.
MosaicSizeFullSide(s, w, h) == Max(1, Min(s, Min(w, h)))

\* mosaic_size = max(1, min(strength, min(w, h) // 2))
MosaicSize(s, w, h) == Max(1, Min(s, Min(w, h) \div 2))

\* Scenario C: bbox [0, 0, 10000, 10000] on a 1920 x 1080 frame.
ScenarioC == [bbox |-> <<0, 0, 10000, 10000>>, shape |-> [width |-> 1920, height |-> 1080]]

Shapes == {[width |-> w, height |-> h] : w, h \in 1..MaxDim} \cup {ScenarioC.shape}
Coords == ((-1)..(MaxDim + 1)) \cup {ScenarioC.bbox[3]}
Strengths == {-1, 0, 1, 5, 15, 50}

\* One iteration of the loop over the regions: clamp, block size.
ApplyMosaicToRegion ==
    /\ pc = "mosaic_init"
    /\ clamped' = ClampBBox(bbox, shape)
    /\ mosaic_size' = MosaicSize(strength, clamped'[3], clamped'[4])
    /\ pc' = "mosaic_done"
    /\ UNCHANGED <<inputVars, extractVars, applyVars, resolveVars, shape,
                   strength, bbox, captureVars, validatorVars, extVars>>

\* ------------------------------------- _apply_mosaic_to_frame, pixel level
\* A frame is one row of grey values (height 1).  frame[y:y+h, x:x+w] of a
\* clamped box: a view of the row's pixels x .. x+w-1 (0-based).
Roi(frame, box) == SubSeq(frame, box[1] + 1, box[1] + box[3])

\* cv2.resize(roi, (1, 1), INTER_LINEAR) on a row: the sample at the centre of
\* the row, the middle pixel for an odd width, the mean of the two middle
\* pixels for an even width.
ResizeToOne(roi) ==
    LET w == Len(roi)
    IN  IF w % 2 = 1 THEN roi[(w + 1) \div 2]
        ELSE (roi[w \div 2] + roi[w \div 2 + 1]) \div 2

\* cv2.resize(small, (w, h), INTER_NEAREST) of a one-pixel image
ResizeFromOne(value, w) == [i \in 1..w |-> value]

\* frame[y:y+h, x:x+w] = mosaic
Paste(frame, box, mosaic) ==
    [p \in DOMAIN frame |->
        IF box[1] + 1 <= p /\ p <= box[1] + box[3] THEN mosaic[p - box[1]] ELSE frame[p]]

\* Mutant of RoiSource: every region reads the frame as it was handed in.
RoiSourceOriginal(original, current) == original

\* roi = frame[y:y+h, x:x+w] is taken from the frame array the loop writes
\* into, so it holds what the regions before left there.
RoiSource(original, current) == current

\* The whole loop of _apply_mosaic_to_frame from the i-th region on.
RECURSIVE MosaicLoop(_, _, _)
MosaicLoop(frame, rs, i) ==
    IF i > Len(rs) THEN frame
    ELSE LET box == ClampBBox(rs[i].bbox, [width |-> Len(frame), height |-> 1])
         IN  MosaicLoop(Paste(frame, box,
                              ResizeFromOne(ResizeToOne(Roi(frame, box)), box[3])),
                        rs, i + 1)

\* One iteration of the loop: clamp, read the roi, shrink to mosaic_size (1
\* on a row: min(w, h) // 2 = 0), enlarge, write back in place.
MosaicRegionStep ==
    /\ pc = "frame_mosaic"
    /\ Len(roi_log) < Len(regions)
    /\ LET region == regions[Len(roi_log) + 1]
           box == ClampBBox(region.bbox, [width |-> Len(image), height |-> 1])
           roi == Roi(RoiSource(image0, image), box)
           mosaic == ResizeFromOne(ResizeToOne(roi), box[3])
       IN  /\ MosaicSize(strength, box[3], box[4]) = 1
           /\ image' = Paste(image, box, mosaic)
           /\ roi_log' = Append(roi_log, [bbox |-> box, roi |-> roi, mosaic |-> mosaic])
    /\ UNCHANGED <<inputVars, pc, extractVars, applyVars, resolveVars, clampVars,
                   captureVars, validatorVars, toolVars, image0, storeVars,
                   agentVars>>

\* return frame
MosaicFrameReturn ==
    /\ pc = "frame_mosaic"
    /\ Len(roi_log) = Len(regions)
    /\ pc' = "frame_done"
    /\ UNCHANGED <<inputVars, extractVars, applyVars, resolveVars, clampVars,
                   captureVars, validatorVars, extVars>>

\* ------------------------------------------ resolving, applying, resolving
\* _apply_mosaic_to_frame(frame, resolved regions, strength) on a freshly
\* decoded frame: the whole loop; the output frame records the list it was
\* given.
MosaicResolved ==
    /\ pc = "resolved"
    /\ resolve_result.kind = "regions"
    /\ image' = MosaicLoop(image0, resolve_result.value, 1)
    /\ out_frames' = Append(out_frames, [index |-> test_frame_id - 1,
                                         regions |-> resolve_result.value])
    /\ pc' = "frame_mosaicked"
    /\ UNCHANGED <<inputVars, extractVars, regions, frame_regions_map,
                   mosaic_frame_count, writer_open, apply_result, resolveVars,
                   clampVars, captureVars, validatorVars, toolVars, image0, roi_log,
                   storeVars, agentVars>>

\* interpolation_func called once more with the same test_frame_id, table and
\* key list.
ResolveSame ==
    /\ pc \in {"resolved", "frame_mosaicked"}
    /\ resolve_result' = SimpleInterpolationFunc(test_frame_id, frame_regions_map,
                                                 sorted_frame_ids)
    /\ pc' = "re_resolved"
    /\ UNCHANGED <<inputVars, extractVars, applyVars, sorted_frame_ids,
                   test_frame_id, clampVars, captureVars, validatorVars, extVars>>

\* -------------------------------------------------------- TrackingValidator
\* ValidationResult(stage, status, message, details): the message is kept as
\* the set of issues it joins; status = "fail" if issues else "pass".
ValidationResult(stage, issues) ==
    [stage |-> stage,
     status |-> IF issues = {} THEN "pass" ELSE "fail",
     issues |-> issues,
     json_ok |-> TRUE]

\* A result whose details hold numpy scalars (the np.int64 keys and counts of
\* np.unique, the np.bool_ of a comparison on np.mean, the np.int64 of
\* np.random.choice): json.dump cannot write them.
WithNumpyDetails(result, has_numpy) == [result EXCEPT !.json_ok = ~ has_numpy]

\* ValidationResult(stage=..., status="fail", message=...) of an early return
\* or of an except branch.
FailResult(stage, message) ==
    [stage |-> stage, status |-> "fail", issues |-> {message}, json_ok |-> TRUE]

\* What one validate_* call does: the result it returns, and whether it
\* appended the result to self.validation_results on the way.
Outcome(result, appended) == [result |-> result, appended |-> appended]

\* The effect of one validate_* call on the validator.
Called(op, args, out) ==
    /\ validation_results' = IF out.appended
                             THEN Append(validation_results, out.result)
                             ELSE validation_results
    /\ call_log' = Append(call_log, out.result)
    /\ last_call' = [op |-> op, args |-> args, result |-> out.result, out |-> out]
    /\ calls_left' = calls_left - 1

\* os.path.exists / cv2.imread of the image file of the sample at position i.
FileState(fstate, i) == IF i \in DOMAIN fstate THEN fstate[i] ELSE "ok"

FrameIds(fs) == [i \in DOMAIN fs |-> fs[i].frame_id]
SeqMin(s) == CHOOSE m \in {s[i] : i \in DOMAIN s} : \A i \in DOMAIN s : m <= s[i]
SeqMax(s) == CHOOSE m \in {s[i] : i \in DOMAIN s} : \A i \in DOMAIN s : m >= s[i]

RECURSIVE SeqSum(_)
SeqSum(s) == IF s = <<>> THEN 0 ELSE s[1] + SeqSum(Tail(s))

\* [ids[i+1] - ids[i] for i in range(len(ids) - 1)]
Intervals(ids) == [i \in 1..(Len(ids) - 1) |-> ids[i + 1] - ids[i]]

\* Mutant of FrameIdOutOfRange: the ids taken as zero-based.
FrameIdOutOfRangeZeroBased(frame_ids, total_frames) ==
    SeqMin(frame_ids) < 0 \/ SeqMax(frame_ids) > total_frames - 1

\* validate_frame_extraction, check 2: min_id < 1 or max_id > total_frames
FrameIdOutOfRange(frame_ids, total_frames) ==
    SeqMin(frame_ids) < 1 \/ SeqMax(frame_ids) > total_frames

\* validate_frame_extraction, check 3: t < 0 or t > duration, with
\* duration = total_frames / fps if fps > 0 else 0; t is <<numerator, denominator>>.
TimestampOutOfRange(t, total_frames, fps) ==
    LET duration == IF fps > 0 THEN <<total_frames, fps>> ELSE <<0, 1>>
    IN  t[1] < 0 \/ t[1] * duration[2] > duration[1] * t[2]

\* sum / n is a binary fraction, so the float division is exact.
MeanIsExact(sum, n) == \E k \in 0..n : (Abs(sum) * 2^k) % n = 0

\* validate_frame_extraction, check 5: max_deviation > avg_interval * 0.5, the
\* outcomes the float comparison can have.  With n intervals of sum s,
\* |interval - s/n| > s/(2n) is 2 |n interval - s| > s.  When the largest
\* deviation is exactly half the mean and the mean is not a binary fraction,
\* the rounding of s/n decides (the gaps 1, 1, 2 are flagged; 2, 3, 5 are not).
GapVerdicts(frame_ids) ==
    IF Len(frame_ids) <= 1 THEN {FALSE}
    ELSE LET intervals == Intervals(frame_ids)
             n == Len(intervals)
             sum == SeqSum(intervals)
             dev2(i) == 2 * Abs(n * intervals[i] - sum)
         IN  IF \E i \in 1..n : dev2(i) > sum THEN {TRUE}
             ELSE IF (\E i \in 1..n : dev2(i) = sum) /\ ~ MeanIsExact(sum, n)
                  THEN {TRUE, FALSE}
                  ELSE {FALSE}

\* TrackingValidator.validate_frame_extraction; expected_count 0 stands for
\* None / 0, uneven is the outcome of check 5.
FrameExtractionOutcome(vid, extracted_frames, fstate, expected_count, uneven) ==
    IF vid.status # "ok"
    THEN \* not cap.isOpened(): returned without being appended
         Outcome(FailResult("frame_extraction", "cannot_open"), FALSE)
    ELSE IF extracted_frames = <<>>
    THEN \* min(frame_ids) raises ValueError: the except branch
         Outcome(FailResult("frame_extraction", "exception"), TRUE)
    ELSE LET total_frames == Len(vid.frames)
             frame_ids == FrameIds(extracted_frames)
             issues ==
                (IF expected_count # 0 /\ Len(extracted_frames) # expected_count
                 THEN {"count"} ELSE {})
                \cup (IF FrameIdOutOfRange(frame_ids, total_frames)
                      THEN {"id_range"} ELSE {})
                \cup (IF \E i \in DOMAIN extracted_frames :
                            TimestampOutOfRange(extracted_frames[i].timestamp,
                                                total_frames, vid.fps)
                      THEN {"timestamp"} ELSE {})
                \cup (IF \E i \in DOMAIN extracted_frames :
                            FileState(fstate, i) = "missing"
                      THEN {"missing_files"} ELSE {})
                \cup (IF uneven THEN {"uneven"} ELSE {})
         IN  Outcome(ValidationResult("frame_extraction", issues), TRUE)

\* validator.validate_frame_extraction(video_path, frames, expected_count) on
\* the frames extract_frames returned.
ValidateFrameExtraction ==
    /\ calls_left > 0
    /\ extract_result.kind = "frames"
    /\ \E uneven \in GapVerdicts(FrameIds(extract_result.value)) :
          Called("validate_frame_extraction",
                 [expected_count |-> call_args.expected_count],
                 FrameExtractionOutcome(video, extract_result.value, file_state,
                                        call_args.expected_count, uneven))
    /\ UNCHANGED <<inputVars, pc, extractVars, applyVars, resolveVars, clampVars,
                   captureVars, call_args, file_state, extVars>>

\* A DetectionRegion with its confidence, in percent (0.25 is 25).
DetectionV(frame_id, box, confidence) ==
    [frame_id |-> frame_id, bbox |-> box, confidence |-> confidence]

\* validate_llm_detection, check 2: len(detected_frames) / len(frame_ids) if
\* frame_ids else 0, as the fraction <<numerator, denominator>>.
CoverageRate(sampled, detections) ==
    LET detected_frames == {detections[i].frame_id : i \in DOMAIN detections}
        frame_ids == {sampled[i].frame_id : i \in DOMAIN sampled}
    IN  IF frame_ids # {}
        THEN <<Cardinality(detected_frames), Cardinality(frame_ids)>>
        ELSE <<0, 1>>

\* TrackingValidator.validate_llm_detection
LlmDetectionOutcome(sampled, detections, video_info) ==
    LET num_frames == Len(sampled)    \* frame_count = len(frames)
        detection_count == Len(detections)
        coverage_rate == CoverageRate(sampled, detections)
        confidence_sum == SeqSum([i \in DOMAIN detections |-> detections[i].confidence])
        low_confidence_count ==
            Cardinality({i \in DOMAIN detections : detections[i].confidence < 50})
        OutOfVideo(b) == \/ b[1] < 0 \/ b[2] < 0
                         \/ b[1] + b[3] > video_info.width
                         \/ b[2] + b[4] > video_info.height
        video_area == video_info.width * video_info.height
        Large(b) == 4 * (b[3] * b[4]) > video_area
        Tiny(b) == ~ Large(b) /\ 1000 * (b[3] * b[4]) < video_area
        tiny_regions == Cardinality({i \in DOMAIN detections : Tiny(detections[i].bbox)})
        issues ==
            (IF detection_count = 0 THEN {"no_detection"}
             ELSE IF detection_count > num_frames * 3 THEN {"too_many"} ELSE {})
            \cup (IF 2 * coverage_rate[1] < coverage_rate[2] THEN {"coverage"} ELSE {})
            \cup (IF video_info # NoVideoInfo
                     /\ \E i \in DOMAIN detections : OutOfVideo(detections[i].bbox)
                  THEN {"coordinates"} ELSE {})
            \cup (IF detection_count > 0 /\ confidence_sum < 70 * detection_count
                  THEN {"avg_confidence"} ELSE {})
            \cup (IF detection_count > 0 /\ 10 * low_confidence_count > 3 * detection_count
                  THEN {"low_confidence"} ELSE {})
            \cup (IF video_info # NoVideoInfo
                     /\ \E i \in DOMAIN detections : Large(detections[i].bbox)
                  THEN {"large_regions"} ELSE {})
            \cup (IF video_info # NoVideoInfo /\ 5 * tiny_regions > detection_count
                  THEN {"tiny_regions"} ELSE {})
    IN  Outcome(WithNumpyDetails(ValidationResult("llm_detection", issues),
                                 detection_count > 0),
                TRUE)

VideoInfos == {NoVideoInfo, [width |-> 1920, height |-> 1080]}

\* validator.validate_llm_detection(frames, detections, video_info) on the
\* frames extract_frames returned and the annotator's regions.
ValidateLlmDetection ==
    /\ calls_left > 0
    /\ extract_result.kind = "frames"
    /\ Called("validate_llm_detection", [video_info |-> call_args.video_info],
              LlmDetectionOutcome(extract_result.value, regions,
                                  call_args.video_info))
    /\ UNCHANGED <<inputVars, pc, extractVars, applyVars, resolveVars, clampVars,
                   captureVars, call_args, file_state, extVars>>

\* The lookup apply_mosaic_regions makes, passed as interpolation_func: the
\* regions of the frame when it is a key, none otherwise.
ExactKeyFunc(frame_id, map, ids) == Result("regions", RegionsOfFrame(frame_id, map))

\* The functions a caller passes as interpolation_func.
InterpolationFuncs == {"simple_interpolation_func", "exact_key"}

\* interpolation_func(test_frame_id, frame_regions_map, sorted_frame_ids)
CallInterpolationFunc(func, frame_id, map, ids) ==
    IF func = "simple_interpolation_func"
    THEN SimpleInterpolationFunc(frame_id, map, ids)
    ELSE ExactKeyFunc(frame_id, map, ids)

\* Length of the run of consecutive frame ids (each the previous plus 1) that
\* ends at position i of coverage_gaps.
RECURSIVE RunEndingAt(_, _)
RunEndingAt(coverage_gaps, i) ==
    IF i > 1 /\ coverage_gaps[i] - coverage_gaps[i - 1] = 1
    THEN RunEndingAt(coverage_gaps, i - 1) + 1
    ELSE 1

\* Mutant of HasLargeGap: a run counts from seven frames on.
HasLargeGapOverSix(coverage_gaps) ==
    \E i \in DOMAIN coverage_gaps : RunEndingAt(coverage_gaps, i) > 6

\* validate_tracking_interpolation, check 4: some group of consecutive
\* uncovered test frames has more than 5 members.
HasLargeGap(coverage_gaps) ==
    \E i \in DOMAIN coverage_gaps : RunEndingAt(coverage_gaps, i) > 5

\* TrackingValidator.validate_tracking_interpolation
TrackingInterpolationOutcome(tracked, test_frame_ids, func, total_video_frames) ==
    LET map == GroupRegionsByFrame(tracked)
        ids == SortedSeq(DOMAIN map)
        Answer(f) == CallInterpolationFunc(func, f, map, ids)
        Returns(f) == Answer(f).kind = "regions"
        interpolation_results == SelectSeq(test_frame_ids, Returns)
        IsGap(f) == Returns(f) /\ Answer(f).value = <<>>
        coverage_gaps == SelectSeq(test_frame_ids, IsGap)
        covered == Len(interpolation_results) - Len(coverage_gaps)
        intervals == Intervals(ids)
        issues ==
            (IF 10 * SeqMax(intervals) > 3 * total_video_frames
             THEN {"keyframe_gap"} ELSE {})
            \cup (IF \E i \in DOMAIN test_frame_ids : ~ Returns(test_frame_ids[i])
                  THEN {"interpolation_error"} ELSE {})
            \cup (IF 10 * covered < 9 * Len(interpolation_results)
                  THEN {"coverage"} ELSE {})
            \cup (IF HasLargeGap(coverage_gaps) THEN {"large_gap"} ELSE {})
    IN  IF Len(ids) < 2
        THEN \* the issue is recorded, then details raises: min() of no keys
             \* (ValueError), or intervals unbound with one key
             Outcome(FailResult("tracking_interpolation", "exception"), TRUE)
        ELSE IF interpolation_results = <<>>
        THEN \* coverage_rate divides by len(interpolation_results) = 0
             Outcome(FailResult("tracking_interpolation", "exception"), TRUE)
        ELSE Outcome(ValidationResult("tracking_interpolation", issues), TRUE)

\* Test frame lists: short lists of any ids, and lists of 60 frames that ask
\* for frames 1 and 2 in turn and end with k consecutive frames past every
\* enumerated keyframe.
LongTestList(k) ==
    [i \in 1..60 |-> IF i <= 60 - k THEN 1 + (i % 2) ELSE MaxKey + i - (60 - k)]
TestLists == SeqsUpTo(0..(MaxKey + 1), MaxTests)
             \cup {LongTestList(5), LongTestList(6)}

TotalVideoFrames == {4, 10, 360}

\* validator.validate_tracking_interpolation(regions, test_frame_ids,
\* interpolation_func, total_video_frames) on the annotator's regions.
ValidateTrackingInterpolation ==
    /\ calls_left > 0
    /\ Called("validate_tracking_interpolation",
              [test_frame_ids |-> call_args.test_frame_ids,
               interpolation_func |-> call_args.interpolation_func,
               total_video_frames |-> call_args.total_video_frames],
              TrackingInterpolationOutcome(regions, call_args.test_frame_ids,
                                           call_args.interpolation_func,
                                           call_args.total_video_frames))
    /\ UNCHANGED <<inputVars, pc, extractVars, applyVars, resolveVars, clampVars,
                   captureVars, call_args, file_state, extVars>>

\* ------------------------------------------ validate_coordinate_conversion
\* The sample is frame_info[0]; img is the size of its image.  The scale
\* factors video_width / img_width and video_height / img_height are compared
\* exactly (cross-multiplied); no enumerated box lies on a boundary.
CoordinateConversionOutcome(detections, video_info, frame_info, fstate, img) ==
    LET stage == "coordinate_conversion"
        sample_state == FileState(fstate, 1)
        checked == SubSeq(detections, 1, Min(5, Len(detections)))   \* detections[:5]
        ScaleMismatch ==
            10 * Abs(video_info.width * img.height - video_info.height * img.width)
                > img.width * img.height
        OutOfImage(b) == \/ b[1] < 0 \/ b[2] < 0
                         \/ b[1] + b[3] > video_info.width
                         \/ b[2] + b[4] > video_info.height
    IN  IF video_info = NoVideoInfo
        THEN \* video_info.get on None: AttributeError, caught
             Outcome(FailResult(stage, "exception"), TRUE)
        ELSE IF frame_info = <<>> \/ sample_state = "missing"
        THEN Outcome(ValidationResult(stage, {"no_sample"}), TRUE)
        ELSE IF sample_state = "unreadable"
        THEN \* img is None: details is never bound, UnboundLocalError, caught
             Outcome(FailResult(stage, "exception"), TRUE)
        ELSE Outcome(ValidationResult(stage,
                        (IF ScaleMismatch THEN {"scale"} ELSE {})
                        \cup (IF \E i \in DOMAIN checked : OutOfImage(checked[i].bbox)
                              THEN {"coordinates"} ELSE {})),
                     TRUE)

ValidateCoordinateConversion ==
    /\ calls_left > 0
    /\ extract_result.kind = "frames"
    /\ Called("validate_coordinate_conversion", [video_info |-> call_args.video_info],
              CoordinateConversionOutcome(regions, call_args.video_info,
                                          extract_result.value, file_state,
                                          resolution))
    /\ UNCHANGED <<inputVars, pc, extractVars, applyVars, resolveVars, clampVars,
                   captureVars, call_args, file_state, extVars>>

\* -------------------------------------------- validate_mosaic_application
\* The mosaic functions a caller hands in: one that pixelates the region of
\* the array it is given in place and returns it (as _apply_mosaic_to_frame
\* does), one that returns the array untouched, one that raises.
MosaicFuncs == {"pixelate", "identity", "raises"}

\* x >= 0 and y >= 0 and x + w <= frame_width and y + h <= frame_height and
\* w > 0 and h > 0
ValidRegion(b, img) ==
    /\ b[1] >= 0 /\ b[2] >= 0
    /\ b[1] + b[3] <= img.width /\ b[2] + b[4] <= img.height
    /\ b[3] > 0 /\ b[4] > 0

\* Mutant of OriginalAfterMosaic: processed_frame is original_frame itself, so
\* a function that works in place changes the original too.
OriginalAfterMosaicAliased(mosaic_func) ==
    IF mosaic_func = "pixelate" THEN "mosaicked" ELSE "as_read"

\* processed_frame = original_frame.copy(): whatever mosaic_func does to the
\* array it is given, original_frame stays as cv2.imread returned it.
OriginalAfterMosaic(mosaic_func) == "as_read"

\* A validate_mosaic_application call that got as far as trying the function:
\* its result, whether it was appended, and original_frame at the end.
OutcomeWithFrame(result, appended, original_frame) ==
    [result |-> result, appended |-> appended, original_frame |-> original_frame]

\* sample_state is the state of the file at sample_frame_path, img its size.
\* A pixelated region differs from the original region by more than the
\* threshold of 1.0.
MosaicApplicationOutcome(sample_state, img, regs, mosaic_func) ==
    LET stage == "mosaic_application"
        valid_regions == SelectSeq(regs, LAMBDA r : ValidRegion(r.bbox, img))
        processed_frame == IF mosaic_func = "pixelate" THEN "mosaicked" ELSE "as_read"
        original_frame == OriginalAfterMosaic(mosaic_func)
        mosaic_applied == processed_frame # original_frame
        issues ==
            (IF Len(valid_regions) < Len(regs) THEN {"invalid_regions"} ELSE {})
            \cup (IF mosaic_func = "raises" THEN {"mosaic_failed"}
                  ELSE IF ~ mosaic_applied THEN {"not_visible"} ELSE {})
    IN  IF sample_state = "missing"
        THEN Outcome(FailResult(stage, "no_sample"), FALSE)
        ELSE IF sample_state = "unreadable"
        THEN Outcome(FailResult(stage, "unreadable"), FALSE)
        ELSE IF valid_regions = <<>>
        THEN Outcome(FailResult(stage, "no_valid_region"), FALSE)
        ELSE OutcomeWithFrame(ValidationResult(stage, issues), TRUE, original_frame)

\* sample_frame_path is the image of the first sample; with no sample it
\* names no file.
SamplePathState(frame_info, fstate) ==
    IF frame_info = <<>> THEN "missing" ELSE FileState(fstate, 1)

ValidateMosaicApplication ==
    /\ calls_left > 0
    /\ extract_result.kind = "frames"
    /\ Called("validate_mosaic_application", [mosaic_func |-> call_args.mosaic_func],
              MosaicApplicationOutcome(SamplePathState(extract_result.value, file_state),
                                       resolution, regions, call_args.mosaic_func))
    /\ UNCHANGED <<inputVars, pc, extractVars, applyVars, resolveVars, clampVars,
                   captureVars, call_args, file_state, extVars>>

\* ------------------------------------------- validate_end_to_end_coverage
\* sample_frames=None: np.random.choice(total_frames, min(20, total_frames),
\* replace=False), any subset of that size.
SampleChoices(total_frames) ==
    {S \in SUBSET (0..(total_frames - 1)) : Cardinality(S) = Min(20, total_frames)}

\* The output file opens once apply_mosaic_regions has released it.  A frame
\* of the output differs from the original by more than the threshold exactly
\* when regions were mosaicked on it.
EndToEndCoverageOutcome(vid, output, sample_frames) ==
    LET stage == "end_to_end_coverage"
        total_frames == Len(vid.frames)
        processed_frames == Len(output.value)
        compared == {i \in sample_frames : i < total_frames /\ i < processed_frames}
        frames_with_changes ==
            Cardinality({i \in compared : output.value[i + 1].regions # <<>>})
        total_sampled == Cardinality(compared)
        issues ==
            (IF total_frames # processed_frames THEN {"frame_count"} ELSE {})
            \cup (IF total_sampled = 0 \/ 10 * frames_with_changes < total_sampled
                  THEN {"low_coverage"}
                  ELSE IF 10 * frames_with_changes > 8 * total_sampled
                  THEN {"high_coverage"} ELSE {})
    IN  IF vid.status # "ok"
        THEN Outcome(FailResult(stage, "cannot_open_original"), FALSE)
        ELSE IF output.kind # "output_path"
        THEN Outcome(FailResult(stage, "cannot_open_processed"), FALSE)
        ELSE Outcome(WithNumpyDetails(ValidationResult(stage, issues),
                                      total_sampled > 0),
                     TRUE)

ValidateEndToEndCoverage ==
    /\ calls_left > 0
    /\ \E sample_frames \in SampleChoices(Len(video.frames)) :
          Called("validate_end_to_end_coverage", [sample_frames |-> sample_frames],
                 EndToEndCoverageOutcome(video, apply_result, sample_frames))
    /\ UNCHANGED <<inputVars, pc, extractVars, applyVars, resolveVars, clampVars,
                   captureVars, call_args, file_state, extVars>>

\* --------------------------------------------- generate_validation_report
\* The stages _generate_recommendations tests for, in the order of its if
\* statements; a recommendation is named by its stage.
RecommendationStages == <<"frame_extraction", "llm_detection",
                          "coordinate_conversion", "tracking_interpolation",
                          "mosaic_application", "end_to_end_coverage">>

\* failed_stages = [r.stage for r in self.validation_results if r.status == "fail"]
FailedStages(results) ==
    {results[i].stage : i \in {j \in DOMAIN results : results[j].status = "fail"}}

\* Mutant of GenerateRecommendations: a stage is recommended for as soon as it
\* has a result, whatever its status.
GenerateRecommendationsAnyStatus(results) ==
    SelectSeq(RecommendationStages,
              LAMBDA s : \E i \in DOMAIN results : results[i].stage = s)

\* _generate_recommendations: one if per stage, each appending the stage's
\* recommendation when the stage is among the failed ones.
GenerateRecommendations(results) ==
    SelectSeq(RecommendationStages, LAMBDA s : s \in FailedStages(results))

\* The report dictionary of generate_validation_report (summary counts and
\* recommendations).
BuildReport(results) ==
    [total_tests |-> Len(results),
     passed |-> Cardinality({i \in DOMAIN results : results[i].status = "pass"}),
     failed |-> Cardinality({i \in DOMAIN results : results[i].status = "fail"}),
     warnings |-> Cardinality({i \in DOMAIN results : results[i].status = "warning"}),
     recommendations |-> GenerateRecommendations(results)]

\* generate_validation_report: the report is written with json.dump, then the
\* text summary is formatted with passed_tests/total_tests.
ReportOutcome(results) ==
    IF \E i \in DOMAIN results : ~ results[i].json_ok
    THEN Result("error", "TypeError")
    ELSE IF Len(results) = 0
    THEN Result("error", "ZeroDivisionError")
    ELSE Result("summary", BuildReport(results))

GenerateValidationReport ==
    /\ calls_left > 0
    /\ last_call' = [op |-> "generate_validation_report", args |-> <<>>,
                     result |-> ReportOutcome(validation_results),
                     out |-> BuildReport(validation_results)]
    /\ calls_left' = calls_left - 1
    /\ UNCHANGED <<inputVars, pc, extractVars, applyVars, resolveVars, clampVars,
                   captureVars, validation_results, call_log, call_args, file_state, extVars>>

\* ---------------------------------------------------- mosaic_video_regions
\* JSON values: an object is a function from its keys, an array is tagged, a
\* Python tuple is a sequence.
JsonArray(items) == [array |-> items]

\* Optional[int]: None / JSON null is the empty sequence, a number n is <<n>>.
None == <<>>

\* region_data.get(key, default)
Get(entry, key, default) == IF key \in DOMAIN entry THEN entry[key] ELSE default

\* DetectionRegion(frame_id, object_type, bbox, confidence, description, track_id)
DetectionRegion(frame_id, object_type, box, confidence, description, track_id) ==
    [frame_id |-> frame_id, object_type |-> object_type, bbox |-> box,
     confidence |-> confidence, description |-> description, track_id |-> track_id]

\* Mutant of SerializeBbox: the array is written in the order y, x, h, w.
SerializeBboxSwapped(box) == JsonArray(<<box[2], box[1], box[4], box[3]>>)

\* "bbox": list(region.bbox)
SerializeBbox(box) == JsonArray(box)

\* process_request: one entry of enhanced_regions_data["regions"]
SerializeRegion(region) ==
    [frame_id |-> region.frame_id,
     object_type |-> region.object_type,
     bbox |-> SerializeBbox(region.bbox),
     confidence |-> region.confidence,
     description |-> region.description,
     track_id |-> region.track_id]

\* json.dumps(enhanced_regions_data) followed by json.loads(regions_data)
SerializeRegions(region_list) ==
    [kind |-> "json",
     regions |-> [i \in DOMAIN region_list |-> SerializeRegion(region_list[i])]]

\* Mutant of HasRequiredFields: a missing frame_id or bbox is tolerated (and
\* then read with a default, as the optional fields are).
HasRequiredFieldsLenient(entry) == TRUE

\* region_data["frame_id"] and region_data["bbox"] are subscripted: an entry
\* without one of them raises KeyError.
HasRequiredFields(entry) == "frame_id" \in DOMAIN entry /\ "bbox" \in DOMAIN entry

\* DetectionRegion's validation of bbox: tuple[int, int, int, int]
ValidBbox(box) == Len(box) = 4

\* tuple(region_data["bbox"])
TupleOf(json_array) == json_array.array

\* mosaic_video_regions: the DetectionRegion built from one entry.
ParseRegion(entry) ==
    DetectionRegion(Get(entry, "frame_id", 0),
                    Get(entry, "object_type", "unknown"),
                    TupleOf(Get(entry, "bbox", JsonArray(<<0, 0, 0, 0>>))),
                    Get(entry, "confidence", 100),
                    Get(entry, "description", ""),
                    Get(entry, "track_id", None))

\* mosaic_video_regions up to its call of apply_mosaic_regions: empty data,
\* undecodable data, an empty list, an entry without a required field or with
\* a bbox that is not four numbers all end in VideoProcessingError; otherwise
\* the DetectionRegion list is handed to apply_mosaic_regions.
ToolParse ==
    /\ pc = "tool_called"
    /\ LET entries == IF regions_data.kind = "json" THEN regions_data.regions ELSE <<>>
           accepted ==
               /\ regions_data.kind = "json"
               /\ entries # <<>>
               /\ \A i \in DOMAIN entries :
                     /\ HasRequiredFields(entries[i])
                     /\ ValidBbox(TupleOf(Get(entries[i], "bbox", JsonArray(<<0, 0, 0, 0>>))))
       IN  IF accepted
           THEN /\ regions' = [i \in DOMAIN entries |-> ParseRegion(entries[i])]
                /\ pc' = "annotated"
                /\ UNCHANGED tool_result
           ELSE /\ tool_result' = Raised
                /\ pc' = "tool_error"
                /\ UNCHANGED regions
    /\ UNCHANGED <<inputVars, extractVars, frame_regions_map, mosaic_frame_count,
                   out_frames, writer_open, apply_result, resolveVars, clampVars,
                   captureVars, validatorVars, regions_data, enhanced_regions,
                   pixelVars, storeVars, agentVars>>

\* mosaic_video_regions after apply_mosaic_regions: the output path is
\* returned; an exception is wrapped in a VideoProcessingError.
ToolReturn ==
    /\ pc \in {"applied", "apply_error"}
    /\ tool_result = NoResult
    /\ regions_data # <<>>
    /\ tool_result' = IF pc = "applied" THEN apply_result ELSE WrapException(apply_result.value)
    /\ pc' = IF pc = "applied" THEN "tool_done" ELSE "tool_error"
    /\ UNCHANGED <<inputVars, extractVars, applyVars, resolveVars, clampVars,
                   captureVars, validatorVars, regions_data, enhanced_regions,
                   pixelVars, storeVars, agentVars>>

\* process_request, lines 161-183: the enhanced regions are serialized and the
\* mosaic tool is called with the JSON text.
SerializeAndCallTool ==
    /\ pc = "enhanced"
    /\ regions_data' = SerializeRegions(enhanced_regions)
    /\ pc' = "tool_called"
    /\ UNCHANGED <<inputVars, extractVars, applyVars, resolveVars, clampVars,
                   captureVars, validatorVars, tool_result, enhanced_regions,
                   pixelVars, storeVars, agentVars>>

\* A bbox wider than it is high.
BoxWide == <<0, 1, 2, 1>>

\* Without(entry, key): the JSON object without one of its keys.
Without(entry, key) == [k \in DOMAIN entry \ {key} |-> entry[k]]

FullEntry(f, box) ==
    [frame_id |-> f, object_type |-> "phone", bbox |-> JsonArray(box),
     confidence |-> 100, description |-> "", track_id |-> None]

\* ------------------------------------------ enhance_annotation_with_tracking
\* raise VideoAgentException(...): analyze_video_content failed (or
\* get_video_info did, inside the same try block).
AnalysisFailed == Result("error", "VideoAgentException")

\* llm_region.description = f"{llm_region.description} (LLM追踪)"
\* (a description is the sequence of its parts)
MarkTracked(llm_region) ==
    [llm_region EXCEPT !.description = Append(@, " (LLM tracking)")]

\* seed_frame_ids = {region.frame_id for region in seed_regions}
SeedFrameIds(seeds) == {seeds[i].frame_id : i \in DOMAIN seeds}

\* Mutant of OnOtherFrame: every model-detected region is kept.
OnAnyFrame(llm_region, seed_frame_ids) == TRUE

\* if llm_region.frame_id not in seed_frame_ids
OnOtherFrame(llm_region, seed_frame_ids) == llm_region.frame_id \notin seed_frame_ids

\* The second loop of the merge: each model-detected region on a frame no
\* seed is on is marked and appended, in the model's order.
RECURSIVE MergeLoop(_, _, _, _)
MergeLoop(llm_regions, i, seed_frame_ids, enhanced) ==
    IF i > Len(llm_regions)
    THEN enhanced
    ELSE MergeLoop(llm_regions, i + 1, seed_frame_ids,
                   IF OnOtherFrame(llm_regions[i], seed_frame_ids)
                   THEN Append(enhanced, MarkTracked(llm_regions[i]))
                   ELSE enhanced)

\* enhance_annotation_with_tracking(video_path, seed_regions, ...): the seeds
\* are appended first, then the merge; any exception in the try block
\* returns seed_regions itself.
EnhancedRegions(seeds, analysis) ==
    IF analysis.kind = "error"
    THEN seeds
    ELSE MergeLoop(analysis.value, 1, SeedFrameIds(seeds), seeds)

\* One call of enhance_annotation_with_tracking; process_request keeps the
\* returned list as enhanced_regions.
EnhanceAnnotationWithTracking ==
    /\ pc = "seeded"
    /\ enhanced_regions' = EnhancedRegions(seed_regions, llm_result)
    /\ pc' = "enhanced"
    /\ UNCHANGED <<inputVars, extractVars, applyVars, resolveVars, clampVars,
                   captureVars, validatorVars, regions_data, tool_result,
                   pixelVars, storeVars, agentVars>>

\* ------------------------------------------- process_request (annotation task)
\* create_annotation_session: the session.json it writes; the new session
\* directory holds no regions.json.
Session(session_id, video_path) ==
    [session_id |-> session_id, video_path |-> video_path, status |-> "created",
     regions_file |-> NoFile]

\* The sessions list_annotation_sessions reports whose video_path equals the
\* request's.  os.listdir gives them in no particular order, so the loop's
\* first match is any of them.
Matching(store, video_path) ==
    {i \in DOMAIN store : Get(store[i], "video_path", "") = video_path}

\* auto_save_downloaded_regions(session_id): a regions.json found in the
\* download folder is copied over the session's regions.json and removed from
\* the download folder; without one nothing changes.
AutoSave(store, i, downloaded) ==
    IF downloaded = NoFile
    THEN [store |-> store, download |-> downloaded, status |-> "not_found"]
    ELSE [store |-> [store EXCEPT ![i].regions_file = downloaded],
          download |-> NoFile, status |-> "success"]

\* load_annotation_data(session_id) on a regions.json that json.load accepts,
\* or on none.
LoadAnnotationData(file) ==
    IF file = NoFile
    THEN [status |-> "no_annotation", regions |-> <<>>]
    ELSE [regions |-> Get(file, "regions", <<>>)]

\* Mutant of HasValidRegions: the length of the list is not tested.
HasValidRegionsAnyLength(annotation_result) ==
    Get(annotation_result, "status", "") # "no_annotation"

\* has_valid_regions (the list is a JSON array here, so isinstance holds)
HasValidRegions(annotation_result) ==
    /\ Get(annotation_result, "status", "") # "no_annotation"
    /\ Len(Get(annotation_result, "regions", <<>>)) > 0

\* The seed DetectionRegion built from one entry of the loaded list.
SeedRegion(region_data, target_description) ==
    DetectionRegion(Get(region_data, "frame_id", 0),
                    Get(region_data, "object_type", target_description),
                    TupleOf(Get(region_data, "bbox", JsonArray(<<0, 0, 0, 0>>))),
                    Get(region_data, "confidence", 100),
                    Get(region_data, "description", <<target_description, "manual">>),
                    None)

\* region_data["frame_id"] and region_data["bbox"] are subscripted and the
\* bbox is validated by DetectionRegion: the seed loop raises otherwise.
SeedsBuildable(regions_list) ==
    \A i \in DOMAIN regions_list :
        /\ HasRequiredFields(regions_list[i])
        /\ ValidBbox(TupleOf(Get(regions_list[i], "bbox", JsonArray(<<0, 0, 0, 0>>))))

\* What one process_request call did: whether a session matched, the regions
\* list it loaded, the regions_data it called the mosaic tool with (if it
\* did), whether an output video was written, and how the call ended;
\* video_ok is whether the video could be opened and decoded during the call.
Request(video_path, video_ok, matched, loaded, mosaic_called, data, output, result) ==
    [op |-> "process_request", video_path |-> video_path, video_ok |-> video_ok,
     matched |-> matched,
     loaded |-> loaded, mosaic_called |-> mosaic_called, regions_data |-> data,
     output |-> output, result |-> result]

\* process_request from line 113 on, once a session matched and the download
\* folder was looked at: load, test, seed, enhance, serialize, mosaic.
\* video_ok: the video can be opened and decoded when the mosaic tool runs.
MatchedRequest(video_path, file, video_ok, analysis, target_description) ==
    IF file.kind = "malformed"
    THEN Request(video_path, video_ok, TRUE, <<>>, FALSE, <<>>, FALSE, "raised")
    ELSE LET annotation_result == LoadAnnotationData(file)
             regions_list == Get(annotation_result, "regions", <<>>)
         IN  IF ~HasValidRegions(annotation_result)
             THEN Request(video_path, video_ok, TRUE, regions_list, FALSE, <<>>, FALSE, "guidance")
             ELSE IF ~SeedsBuildable(regions_list)
             THEN Request(video_path, video_ok, TRUE, regions_list, FALSE, <<>>, FALSE, "raised")
             ELSE LET seeds == [i \in DOMAIN regions_list |->
                                   SeedRegion(regions_list[i], target_description)]
                      enhanced == EnhancedRegions(seeds, analysis)
                  IN  Request(video_path, video_ok, TRUE, regions_list, TRUE,
                              SerializeRegions(enhanced), video_ok,
                              IF video_ok THEN "done" ELSE "raised")

\* One annotation-type process_request(user_input, video_path) call, whole.
\* video_ok: whether the video can be opened and decoded during this call;
\* analysis: what analyze_video_content gives if it is asked.
\* Without a matching session the workflow tool extracts the best frame and
\* creates a session; an extraction that raises or gives no frame ends the
\* call before a session directory is made.
ProcessRequest ==
    /\ pc = "agent"
    /\ requests_left > 0
    /\ requests_left' = requests_left - 1
    /\ \E video_path \in {"a.mp4", "b.mp4"}, video_ok \in BOOLEAN,
          analysis \in {AnalysisFailed,
                        Result("regions",
                               <<DetectionRegion(1, "phone", BoxR2, 90, <<"llm">>, None),
                                 DetectionRegion(3, "phone", BoxR2, 90, <<"llm">>, None)>>)} :
          IF Matching(sessions, video_path) = {}
          THEN /\ sessions' = IF video_ok
                              THEN Append(sessions, Session(Len(sessions) + 1, video_path))
                              ELSE sessions
               /\ last_request' = Request(video_path, video_ok, FALSE, <<>>, FALSE, <<>>, FALSE,
                                          IF video_ok THEN "workflow_created" ELSE "raised")
               /\ UNCHANGED download
          ELSE \E i \in Matching(sessions, video_path) :
                  LET saved == AutoSave(sessions, i, download)
                  IN  /\ sessions' = saved.store
                      /\ download' = saved.download
                      /\ last_request' = MatchedRequest(video_path,
                                                        saved.store[i].regions_file,
                                                        video_ok, analysis, "phone")
    /\ UNCHANGED <<inputVars, pc, extractVars, applyVars, resolveVars, clampVars,
                   captureVars, validatorVars, toolVars, pixelVars, storeVars,
                   seed_regions, llm_result>>

\* The annotation page of a session: saveAnnotations() refuses an empty list,
\* otherwise the browser downloads regions.json with the session id and the
\* drawn regions (frame_id, object_type, bbox, confidence, description).
SaveAnnotations ==
    /\ pc = "agent"
    /\ \E i \in DOMAIN sessions, box \in {BoxR1, BoxWide} :
          download' = [kind |-> "json", session_id |-> sessions[i].session_id,
                       regions |-> <<Without(FullEntry(1, box), "track_id")>>]
    /\ UNCHANGED <<inputVars, pc, extractVars, applyVars, resolveVars, clampVars,
                   captureVars, validatorVars, toolVars, pixelVars, storeVars,
                   seed_regions, llm_result, sessions, last_request, requests_left>>

\* The regions.json files a user may put into a session directory by hand:
\* a saved annotation, one without a regions key, one with an empty list, one
\* whose entry lacks its bbox, and one that is no JSON.
RegionFiles ==
    {[kind |-> "json", regions |-> <<Without(FullEntry(1, BoxR1), "track_id")>>],
     [kind |-> "json"],
     [kind |-> "json", regions |-> <<>>],
     [kind |-> "json", regions |-> <<Without(FullEntry(1, BoxR1), "bbox")>>],
     [kind |-> "malformed"]}

\* The guidance message's step 4: the user copies a regions.json into the
\* session directory.
CopyRegionsFile ==
    /\ pc = "agent"
    /\ \E i \in DOMAIN sessions, file \in RegionFiles :
          sessions' = [sessions EXCEPT ![i].regions_file = file]
    /\ UNCHANGED <<inputVars, pc, extractVars, applyVars, resolveVars, clampVars,
                   captureVars, validatorVars, toolVars, pixelVars, storeVars,
                   seed_regions, llm_result, download, last_request, requests_left>>

\* ---------------------------------------------------------- specifications
\* The arguments of one extract_frames call, everything else as constructed.
ExtractCall ==
    /\ \/ /\ video \in Videos
          /\ arg_sample_rate \in 0..MaxRate
          /\ arg_max_frames \in 0..MaxFrames
       \/ /\ video = ScenarioA.video
          /\ arg_sample_rate = ScenarioA.sample_rate
          /\ arg_max_frames = ScenarioA.max_frames
    /\ use_motion_detection \in BOOLEAN
    /\ pc = "init"
    /\ resolution = [width |-> 2, height |-> 1]
    /\ ExtractIdle /\ ApplyIdle /\ ResolveIdle /\ ClampIdle /\ CaptureIdle /\ ExtIdle /\ ValidatorIdle

\* The pipeline: extract_frames, then the annotator, then apply_mosaic_regions
\* on the same video; no validator is attached.
Init == ExtractCall /\ NoValidator

Next ==
    \/ ExtractNotFound
    \/ ExtractCannotOpen
    \/ ExtractOpen
    \/ ExtractStep
    \/ ExtractEnd
    \/ Annotate
    \/ ApplyNoRegions
    \/ ApplyOpen
    \/ ApplyStep
    \/ ApplyEnd

Spec == Init /\ [][Next]_vars

\* extract_frames alone.  The call is one sequential loop that waits on
\* nothing, so it takes its next step whenever it has one.
NextExtract ==
    \/ ExtractNotFound
    \/ ExtractCannotOpen
    \/ ExtractOpen
    \/ ExtractStep
    \/ ExtractEnd

SpecExtract == Init /\ [][NextExtract]_vars /\ WF_vars(NextExtract)

\* apply_mosaic_regions alone, on any video header and any region list.
InitMosaic ==
    /\ video \in {MakeVideo(h, [i \in 1..n |-> FrameA]) :
                     h \in VideoHeaders, n \in 0..MaxVideoLen}
    /\ arg_sample_rate = 0 /\ arg_max_frames = 0 /\ use_motion_detection = FALSE
    /\ pc = "annotated"
    /\ regions \in RegionLists
    /\ frame_regions_map = EmptyMap /\ mosaic_frame_count = 0 /\ out_frames = <<>>
    /\ writer_open = FALSE /\ apply_result = NoResult
    /\ resolution \in Resolutions
    /\ ExtractIdle /\ ResolveIdle /\ ClampIdle /\ CaptureIdle /\ ExtIdle /\ ValidatorIdle
    /\ NoValidator

NextMosaic ==
    \/ ApplyNotFound
    \/ ApplyNoRegions
    \/ ApplyCannotOpen
    \/ ApplyOpen
    \/ ApplyStep
    \/ ApplyStepRaises
    \/ ApplyEnd

SpecMosaic == InitMosaic /\ [][NextMosaic]_vars

\* One call of either operation: extract_frames on any video and arguments, or
\* apply_mosaic_regions on any video header and region list.
InitCalls == Init \/ InitMosaic

NextCalls ==
    \/ ExtractNotFound
    \/ ExtractCannotOpen
    \/ ExtractOpen
    \/ ExtractStep
    \/ ExtractEnd
    \/ ApplyNotFound
    \/ ApplyNoRegions
    \/ ApplyCannotOpen
    \/ ApplyOpen
    \/ ApplyStep
    \/ ApplyStepRaises
    \/ ApplyEnd

SpecCalls == InitCalls /\ [][NextCalls]_vars

\* Region resolution alone, on any region list.
InitResolve ==
    /\ InputIdle
    /\ pc = "resolve_init"
    /\ regions \in RegionLists \cup {ScenarioB.regions}
    /\ frame_regions_map = EmptyMap /\ mosaic_frame_count = 0 /\ out_frames = <<>>
    /\ writer_open = FALSE /\ apply_result = NoResult
    /\ resolution = [width |-> 2, height |-> 1]
    /\ ExtractIdle /\ ResolveIdle /\ ClampIdle /\ CaptureIdle /\ ExtIdle /\ ValidatorIdle
    /\ NoValidator

NextResolve ==
    \/ ResolveGroup
    \/ ResolveQuery

SpecResolve == InitResolve /\ [][NextResolve]_vars

\* The clamp and block size of _apply_mosaic_to_frame, on any bbox and frame.
InitClamp ==
    /\ InputIdle
    /\ pc = "mosaic_init"
    /\ shape \in Shapes
    /\ bbox \in Coords \X Coords \X Coords \X Coords
    /\ strength \in Strengths
    /\ clamped = <<>> /\ mosaic_size = 0
    /\ resolution = [width |-> 2, height |-> 1]
    /\ ExtractIdle /\ ApplyIdle /\ ResolveIdle /\ CaptureIdle /\ ExtIdle /\ ValidatorIdle
    /\ NoValidator

NextClamp == ApplyMosaicToRegion

SpecClamp == InitClamp /\ [][NextClamp]_vars

\* validate_frame_extraction after extract_frames, or on a frame list handed
\* in from elsewhere (any frame_ids; or ids 1..k with any timestamps; or ids
\* 1..k with image files missing), on any video header.
FrameInfoV(frame_id, timestamp) ==
    [frame_id |-> frame_id, timestamp |-> timestamp, index |-> 0]

TimestampsV == {<<-1, 30>>, <<0, 30>>, <<2, 30>>, <<200, 30>>}

HeaderVideos == {MakeVideo(h, [i \in 1..n |-> FrameA]) :
                    h \in VideoHeaders, n \in 0..MaxVideoLen}

FrameListsById ==
    {[i \in DOMAIN ids |-> FrameInfoV(ids[i], <<0, 30>>)] :
        ids \in SeqsUpTo(0..MaxKey, MaxFrames)}

FrameListsByTime ==
    {[i \in DOMAIN ts |-> FrameInfoV(i, ts[i])] :
        ts \in SeqsUpTo(TimestampsV, MaxFrames)}

HandedInFrames ==
    /\ video \in HeaderVideos
    /\ arg_sample_rate = 0 /\ arg_max_frames = 0 /\ use_motion_detection = FALSE
    /\ pc = "extracted"
    /\ sample_rate = 0 /\ max_frames = 0 /\ frame_count = 0
    /\ extracted_count = 0 /\ frames = <<>> /\ prev_frame = NoFrame
    /\ \/ /\ extract_result \in {Result("frames", fs) :
                                    fs \in FrameListsById \cup FrameListsByTime}
          /\ file_state = EmptyMap
       \/ \E k \in 1..MaxFrames :
             /\ extract_result = Result("frames", [i \in 1..k |-> FrameInfoV(i, <<0, 30>>)])
             /\ file_state \in UNION {[S -> {"missing"}] : S \in SUBSET (1..k)}
    /\ resolution = [width |-> 2, height |-> 1]
    /\ validation_results = <<>> /\ call_log = <<>> /\ last_call = NoCall
    /\ ApplyIdle /\ ResolveIdle /\ ClampIdle /\ CaptureIdle /\ ExtIdle

InitFrameCheck ==
    /\ \/ ExtractCall /\ video \in HeaderVideos
       \/ HandedInFrames
    /\ calls_left = 1
    /\ call_args \in {[DefaultArgs EXCEPT !.expected_count = e] :
                         e \in 0..(MaxFrames + 1)}

NextFrameCheck ==
    \/ ExtractNotFound
    \/ ExtractCannotOpen
    \/ ExtractOpen
    \/ ExtractStep
    \/ ExtractEnd
    \/ ValidateFrameExtraction

SpecFrameCheck == InitFrameCheck /\ [][NextFrameCheck]_vars

\* validate_llm_detection on ids 1..k as extract_frames numbers them, and any
\* short list of detections.
NominalFrames(k) == [i \in 1..k |-> FrameInfoV(i, <<0, 30>>)]

DetectionBoxes == {<<0, 0, 100, 100>>, BoxR1}
DetectionKinds == {DetectionV(f, b, c) :
                      f \in 1..MaxKey, b \in DetectionBoxes, c \in {25, 100}}
DetectionLists == SeqsUpTo(DetectionKinds, MaxRegions)

\* Scenario E: 10 sampled frames, 5 detections, all on frames 1 and 2.
ScenarioE == [frames |-> NominalFrames(10),
              detections |-> [i \in 1..5 |->
                                DetectionV(IF i <= 3 THEN 1 ELSE 2,
                                           <<0, 0, 100, 100>>, 100)]]

InitDetectionCheck ==
    /\ InputIdle
    /\ pc = "annotated"
    /\ sample_rate = 0 /\ max_frames = 0 /\ frame_count = 0
    /\ extracted_count = 0 /\ frames = <<>> /\ prev_frame = NoFrame
    /\ \/ /\ extract_result \in {Result("frames", NominalFrames(k)) : k \in 0..MaxFrames}
          /\ regions \in DetectionLists
       \/ /\ extract_result = Result("frames", ScenarioE.frames)
          /\ regions = ScenarioE.detections
    /\ frame_regions_map = EmptyMap /\ mosaic_frame_count = 0 /\ out_frames = <<>>
    /\ writer_open = FALSE /\ apply_result = NoResult
    /\ resolution = [width |-> 2, height |-> 1]
    /\ ResolveIdle /\ ClampIdle /\ CaptureIdle /\ ExtIdle /\ ValidatorIdle
    /\ calls_left = 1
    /\ call_args \in {[DefaultArgs EXCEPT !.video_info = v] : v \in VideoInfos}

NextDetectionCheck == ValidateLlmDetection

SpecDetectionCheck == InitDetectionCheck /\ [][NextDetectionCheck]_vars

\* validate_tracking_interpolation on any short list of keyframe regions.
TrackedLists == SeqsUpTo({DetectionV(f, BoxR1, 100) : f \in 1..MaxKey}, MaxRegions)

InitTrackingCheck ==
    /\ InputIdle
    /\ pc = "annotated"
    /\ regions \in TrackedLists
    /\ frame_regions_map = EmptyMap /\ mosaic_frame_count = 0 /\ out_frames = <<>>
    /\ writer_open = FALSE /\ apply_result = NoResult
    /\ resolution = [width |-> 2, height |-> 1]
    /\ ExtractIdle /\ ResolveIdle /\ ClampIdle /\ CaptureIdle /\ ExtIdle /\ ValidatorIdle
    /\ calls_left = 1
    /\ call_args \in {[DefaultArgs EXCEPT !.test_frame_ids = t,
                                          !.interpolation_func = f,
                                          !.total_video_frames = n] :
                         t \in TestLists, f \in InterpolationFuncs,
                         n \in TotalVideoFrames}

NextTrackingCheck == ValidateTrackingInterpolation

SpecTrackingCheck == InitTrackingCheck /\ [][NextTrackingCheck]_vars

\* A run with a validator attached: frames were sampled and annotated,
\* apply_mosaic_regions runs, and at any moment the harness may call one of
\* the validator's operations on what the run has produced so far.
ValidatedVideos == {MakeVideo([status |-> "ok", fps |-> 30], <<FrameB, FrameB>>),
                    MakeVideo([status |-> "unopenable", fps |-> 0], <<>>)}

ValidatedRegions == {<<>>,
                     <<DetectionV(1, BoxR1, 100)>>,
                     <<DetectionV(1, BoxR1, 100), DetectionV(2, <<0, 0, 100, 100>>, 25)>>}

ValidatedFileStates == {EmptyMap,
                        [i \in {1} |-> "missing"],
                        [i \in {1} |-> "unreadable"]}

ValidatorArgs ==
    {[DefaultArgs EXCEPT !.test_frame_ids = <<1, 2>>],
     [DefaultArgs EXCEPT !.video_info = [width |-> 1920, height |-> 1080],
                         !.mosaic_func = "identity"],
     [DefaultArgs EXCEPT !.video_info = [width |-> 1920, height |-> 1080],
                         !.test_frame_ids = <<1, 2>>,
                         !.mosaic_func = "raises"]}

InitValidator ==
    /\ video \in ValidatedVideos
    /\ arg_sample_rate = 0 /\ arg_max_frames = 0 /\ use_motion_detection = FALSE
    /\ pc = "annotated"
    /\ sample_rate = 0 /\ max_frames = 0 /\ frame_count = 0
    /\ extracted_count = 0 /\ frames = <<>> /\ prev_frame = NoFrame
    /\ extract_result \in {Result("frames", NominalFrames(k)) : k \in {0, 2}}
    /\ regions \in ValidatedRegions
    /\ frame_regions_map = EmptyMap /\ mosaic_frame_count = 0 /\ out_frames = <<>>
    /\ writer_open = FALSE /\ apply_result = NoResult
    /\ resolution \in Resolutions
    /\ ResolveIdle /\ ClampIdle /\ CaptureIdle /\ ExtIdle
    /\ validation_results = <<>> /\ call_log = <<>> /\ last_call = NoCall
    /\ file_state \in ValidatedFileStates
    /\ calls_left = MaxCalls
    /\ call_args \in ValidatorArgs

NextValidator ==
    \/ ApplyNoRegions
    \/ ApplyCannotOpen
    \/ ApplyOpen
    \/ ApplyStep
    \/ ApplyEnd
    \/ ValidateFrameExtraction
    \/ ValidateLlmDetection
    \/ ValidateCoordinateConversion
    \/ ValidateTrackingInterpolation
    \/ ValidateMosaicApplication
    \/ ValidateEndToEndCoverage
    \/ GenerateValidationReport

SpecValidator == InitValidator /\ [][NextValidator]_vars

\* A reporting run: one opened video with two sampled frames, the validator
\* called up to MaxReportCalls times (checks and reports in any order) while
\* apply_mosaic_regions runs.
InitReport ==
    /\ video = MakeVideo([status |-> "ok", fps |-> 30], <<FrameB, FrameB>>)
    /\ arg_sample_rate = 0 /\ arg_max_frames = 0 /\ use_motion_detection = FALSE
    /\ pc = "annotated"
    /\ sample_rate = 0 /\ max_frames = 0 /\ frame_count = 0
    /\ extracted_count = 0 /\ frames = <<>> /\ prev_frame = NoFrame
    /\ extract_result = Result("frames", NominalFrames(2))
    /\ regions \in ValidatedRegions
    /\ frame_regions_map = EmptyMap /\ mosaic_frame_count = 0 /\ out_frames = <<>>
    /\ writer_open = FALSE /\ apply_result = NoResult
    /\ resolution \in Resolutions
    /\ ResolveIdle /\ ClampIdle /\ CaptureIdle /\ ExtIdle
    /\ validation_results = <<>> /\ call_log = <<>> /\ last_call = NoCall
    /\ file_state \in {EmptyMap, [i \in {1} |-> "unreadable"]}
    /\ calls_left = MaxReportCalls
    /\ call_args \in ValidatorArgs

NextReport ==
    \/ ApplyNoRegions
    \/ ApplyOpen
    \/ ApplyStep
    \/ ApplyEnd
    \/ ValidateFrameExtraction
    \/ ValidateLlmDetection
    \/ ValidateCoordinateConversion
    \/ ValidateTrackingInterpolation
    \/ ValidateMosaicApplication
    \/ ValidateEndToEndCoverage
    \/ GenerateValidationReport

SpecReport == InitReport /\ [][NextReport]_vars

\* mosaic_video_regions called on its own with any short regions_data, or by
\* process_request with the serialization of a list of region objects.
EntryKinds ==
    UNION {{FullEntry(f, BoxWide),
            [frame_id |-> f, bbox |-> JsonArray(BoxR1)],
            Without(FullEntry(f, BoxWide), "frame_id"),
            Without(FullEntry(f, BoxWide), "bbox"),
            FullEntry(f, <<0, 1, 2>>)} : f \in 1..2}

ToolInputs ==
    {[kind |-> "empty"], [kind |-> "malformed"]}
    \cup {[kind |-> "json", regions |-> es] : es \in SeqsUpTo(EntryKinds, MaxRegions)}

ToolVideos == {MakeVideo([status |-> "ok", fps |-> 30], <<FrameA, FrameA>>),
               MakeVideo([status |-> "missing", fps |-> 0], <<>>),
               MakeVideo([status |-> "unopenable", fps |-> 0], <<>>)}

RegionObjects ==
    {DetectionRegion(f, "phone", box, 100, "", t) :
        f \in 1..2, box \in {BoxR1, BoxWide}, t \in {None, <<1>>}}

InitTool ==
    /\ video \in ToolVideos
    /\ arg_sample_rate = 0 /\ arg_max_frames = 0 /\ use_motion_detection = FALSE
    /\ ExtractIdle /\ ApplyIdle /\ ResolveIdle /\ ClampIdle /\ CaptureIdle
    /\ ValidatorIdle /\ NoValidator
    /\ resolution = [width |-> 2, height |-> 1]
    /\ PixelIdle /\ StoreIdle /\ AgentIdle
    /\ tool_result = NoResult
    /\ \/ /\ pc = "tool_called"
          /\ regions_data \in ToolInputs
          /\ enhanced_regions = <<>>
       \/ /\ pc = "enhanced"
          /\ regions_data = <<>>
          /\ enhanced_regions \in SeqsUpTo(RegionObjects, MaxRegions) \ {<<>>}

NextTool ==
    \/ SerializeAndCallTool
    \/ ToolParse
    \/ ApplyNotFound
    \/ ApplyCannotOpen
    \/ ApplyOpen
    \/ ApplyStep
    \/ ApplyStepRaises
    \/ ApplyEnd
    \/ ToolReturn

SpecTool == InitTool /\ [][NextTool]_vars

\* _apply_mosaic_to_frame on one three-pixel row with any short list of
\* regions of that frame.
GreyLevels == {0, 64, 128}
Rows == [1..3 -> GreyLevels]
RowBoxes == {<<0, 0, 2, 1>>, <<1, 0, 2, 1>>, <<0, 0, 3, 1>>, <<2, 0, 1, 1>>}

InitFrameMosaic ==
    /\ InputIdle
    /\ pc = "frame_mosaic"
    /\ regions \in SeqsUpTo({Region(1, b) : b \in RowBoxes}, MaxRegions)
    /\ frame_regions_map = EmptyMap /\ mosaic_frame_count = 0 /\ out_frames = <<>>
    /\ writer_open = FALSE /\ apply_result = NoResult
    /\ shape = <<1, 1>> /\ strength = 15 /\ bbox = <<0, 0, 0, 0>>
    /\ clamped = <<>> /\ mosaic_size = 0
    /\ resolution = [width |-> 2, height |-> 1]
    /\ ExtractIdle /\ ResolveIdle /\ CaptureIdle /\ ToolIdle /\ StoreIdle
    /\ AgentIdle
    /\ ValidatorIdle /\ NoValidator
    /\ image0 \in Rows
    /\ image = image0
    /\ roi_log = <<>>

NextFrameMosaic ==
    \/ MosaicRegionStep
    \/ MosaicFrameReturn

SpecFrameMosaic == InitFrameMosaic /\ [][NextFrameMosaic]_vars

\* A table is built from any short region list, a frame_id is resolved, the
\* resolved regions may be mosaicked on a frame, and the same frame_id is
\* resolved again.
PureRows == {<<0, 64, 128>>, <<128, 0, 0>>}

InitPure ==
    /\ InputIdle
    /\ pc = "resolve_init"
    /\ regions \in RegionLists
    /\ frame_regions_map = EmptyMap /\ mosaic_frame_count = 0 /\ out_frames = <<>>
    /\ writer_open = FALSE /\ apply_result = NoResult
    /\ resolution = [width |-> 2, height |-> 1]
    /\ ExtractIdle /\ ResolveIdle /\ ClampIdle /\ CaptureIdle /\ ToolIdle
    /\ StoreIdle /\ AgentIdle /\ ValidatorIdle /\ NoValidator
    /\ image0 \in PureRows
    /\ image = image0
    /\ roi_log = <<>>

NextPure ==
    \/ ResolveGroup
    \/ ResolveQuery
    \/ MosaicResolved
    \/ ResolveSame

SpecPure == InitPure /\ [][NextPure]_vars

\* Two extract_frames runs of one process on different videos, the second
\* emitting up to MaxFrames samples at any moment before, between or after
\* the steps of the first.
InitTwoRuns ==
    /\ video \in {MakeVideo([status |-> "ok", fps |-> 30], fs) :
                     fs \in SeqsUpTo({FrameA, FrameB}, MaxVideoLen)}
    /\ arg_sample_rate \in 1..MaxRate
    /\ arg_max_frames \in 1..MaxFrames
    /\ use_motion_detection = FALSE
    /\ pc = "init"
    /\ resolution = [width |-> 2, height |-> 1]
    /\ ExtractIdle /\ ApplyIdle /\ ResolveIdle /\ ClampIdle /\ CaptureIdle
    /\ ToolIdle /\ PixelIdle /\ AgentIdle /\ ValidatorIdle /\ NoValidator
    /\ frame_files = EmptyMap
    /\ other_max \in 0..MaxFrames
    /\ other_count = 0

NextTwoRuns ==
    \/ ExtractOpen
    \/ ExtractStep
    \/ ExtractEnd
    \/ OtherRunStep

SpecTwoRuns == InitTwoRuns /\ [][NextTwoRuns]_vars

\* enhance_annotation_with_tracking on any seed list and any analysis outcome,
\* followed by the hand-over to the mosaic tool.
MaxSeeds == 2

SeedObjects ==
    {DetectionRegion(f, "phone", box, 100, <<"manual">>, None) :
        f \in 1..2, box \in {BoxR1, BoxWide}}

LlmObjects ==
    {DetectionRegion(f, "phone", BoxR2, 90, <<"llm">>, None) : f \in 1..3}

AnalysisOutcomes ==
    {AnalysisFailed}
    \cup {Result("regions", l) : l \in SeqsUpTo(LlmObjects, MaxSeeds)}

InitEnhance ==
    /\ video = MakeVideo([status |-> "ok", fps |-> 30], <<FrameA, FrameA>>)
    /\ arg_sample_rate = 0 /\ arg_max_frames = 0 /\ use_motion_detection = FALSE
    /\ ExtractIdle /\ ApplyIdle /\ ResolveIdle /\ ClampIdle /\ CaptureIdle
    /\ ValidatorIdle /\ NoValidator
    /\ resolution = [width |-> 2, height |-> 1]
    /\ PixelIdle /\ StoreIdle /\ SessionIdle /\ ToolIdle
    /\ pc = "seeded"
    /\ seed_regions \in SeqsUpTo(SeedObjects, MaxSeeds) \ {<<>>}
    /\ llm_result \in AnalysisOutcomes

NextEnhance ==
    \/ EnhanceAnnotationWithTracking
    \/ SerializeAndCallTool
    \/ ToolParse

SpecEnhance == InitEnhance /\ [][NextEnhance]_vars

\* A run of annotation-type process_request calls on two video paths, from an
\* empty session store, with the user saving and copying annotation files in
\* between.
MaxRequests == 3

InitAgent ==
    /\ InputIdle
    /\ pc = "agent"
    /\ ExtractIdle /\ ApplyIdle /\ ResolveIdle /\ ClampIdle /\ CaptureIdle
    /\ ValidatorIdle /\ NoValidator
    /\ resolution = [width |-> 2, height |-> 1]
    /\ ToolIdle /\ PixelIdle /\ StoreIdle /\ EnhanceIdle
    /\ sessions = <<>> /\ download = NoFile /\ last_request = NoRequest
    /\ requests_left = MaxRequests

NextAgent ==
    \/ ProcessRequest
    \/ SaveAnnotations
    \/ CopyRegionsFile

SpecAgent == InitAgent /\ [][NextAgent]_vars

\* ------------------------------------------------------------------ claims
Returned == extract_result.kind = "frames"
Samples  == extract_result.value
NumDecodable == Len(video.frames)

\* C1: the sequence extract_frames returns has frame_id values exactly
\* 1, 2, ..., k in order, and k <= max_frames.
C1_ContiguousIds ==
    Returned =>
        /\ \A i \in DOMAIN Samples : Samples[i].frame_id = i
        /\ Len(Samples) <= max_frames

\* C1 witness: a returned sequence of several samples taken with motion
\* detection on, whose second sample is not the second decoded frame.
C1_Witness ==
    /\ Returned
    /\ use_motion_detection
    /\ arg_sample_rate >= 1 /\ arg_max_frames >= 1
    /\ Len(Samples) >= 2
    /\ Samples[2].index > 1

\* C2 as stated: with motion detection off, a video of N decodable frames gives
\* exactly min(m, floor(N / r) + 1) samples, ids 1..k at indices 0, r, 2r, ...
C2_Original ==
    (Returned /\ ~ use_motion_detection) =>
        /\ Len(Samples) = Min(max_frames, (NumDecodable \div sample_rate) + 1)
        /\ \A i \in DOMAIN Samples :
              /\ Samples[i].frame_id = i
              /\ Samples[i].index = (i - 1) * sample_rate

\* C2 amended: with motion detection off, a video of N decodable frames gives
\* exactly min(m, ceil(N / r)) samples, ids 1..k at indices 0, r, 2r, ...
C2_CountIsCeiling ==
    (Returned /\ ~ use_motion_detection) =>
        /\ Len(Samples) =
              Min(max_frames, (NumDecodable + sample_rate - 1) \div sample_rate)
        /\ \A i \in DOMAIN Samples :
              /\ Samples[i].frame_id = i
              /\ Samples[i].index = (i - 1) * sample_rate

\* C2 witness: motion detection off, the sample rate divides the frame count
\* and the limit is not reached: N / r samples are returned.
C2_Witness ==
    /\ Returned
    /\ ~ use_motion_detection
    /\ NumDecodable >= 2
    /\ sample_rate >= 2
    /\ NumDecodable % sample_rate = 0
    /\ Len(Samples) = NumDecodable \div sample_rate
    /\ Len(Samples) < max_frames

\* The decoded frame the last emitted sample was taken from, in grey.
LastEmittedGray == ToGray(video.frames[frames[Len(frames)].index + 1])

\* The selection rule of C3 for the frame about to be decoded.
C3_Selected ==
    /\ frame_count % sample_rate = 0
    /\ \/ ~ use_motion_detection
       \/ frames = <<>>
       \/ CalculateMotionScore(LastEmittedGray, video.frames[frame_count + 1])
             >= motion_threshold

\* C3: in every completed iteration of the loop (so while fewer than
\* max_frames samples are emitted) the decoded frame at index i is emitted if
\* and only if i mod sample_rate = 0 and (motion detection is off, or nothing
\* was emitted yet, or the motion score between the last emitted frame and
\* frame i reaches the threshold).
C3_EmittedIffSelected ==
    [][(pc = "extracting" /\ frame_count' = frame_count + 1) =>
          /\ Len(frames) < max_frames
          /\ C3_Selected <=>
                (/\ Len(frames') = Len(frames) + 1
                 /\ frames'[Len(frames')].index = frame_count)
          /\ ~ C3_Selected => frames' = frames]_vars

\* C3 witness: with motion detection on, a candidate was rejected and a later
\* candidate was decoded after it.
C3_Witness ==
    /\ pc = "extracting"
    /\ use_motion_detection
    /\ sample_rate = 1
    /\ Len(frames) = 1
    /\ frame_count = 3
    /\ video.frames[2] # video.frames[1]

Static == \A i, j \in DOMAIN video.frames : video.frames[i] = video.frames[j]

\* C4: for a static video of at least one frame, extract_frames with motion
\* detection on returns exactly one sample.
C4_StaticGivesOne ==
    (Returned /\ use_motion_detection /\ Static /\ NumDecodable >= 1) =>
        Len(Samples) = 1

\* C4 witness: a static video of several frames, every one a candidate, with
\* room for more than one sample.
C4_Witness ==
    /\ Returned
    /\ use_motion_detection
    /\ Static
    /\ NumDecodable >= 3
    /\ sample_rate = 1
    /\ max_frames >= 2
    /\ Len(Samples) = 1

\* C5: extract_frames terminates; once max_frames samples are emitted no
\* further frame is decoded; and when the stream ends first the samples
\* emitted so far are returned normally.
C5_Terminates ==
    /\ <>(extract_result.kind # "none")
    /\ [](/\ pc \in {"extracting", "extracted"}
          /\ Len(frames) >= max_frames
          => /\ Len(frames) = max_frames
             /\ frame_count = frames[max_frames].index + 1)
    /\ [][(pc = "extracting" /\ frame_count = NumDecodable)
          => extract_result' = Result("frames", frames)]_vars

\* C5 witness: the stream ended with fewer than max_frames samples and the
\* shorter sequence was returned.
C5_Witness ==
    /\ Returned
    /\ NumDecodable >= 1
    /\ frame_count = NumDecodable
    /\ Len(Samples) >= 1
    /\ Len(Samples) < max_frames

\* The key of the table nearest to frame_id, the smaller one on a tie.
NearestKey(keys, frame_id) ==
    CHOOSE k \in keys :
        \A j \in keys : \/ Abs(k - frame_id) < Abs(j - frame_id)
                        \/ (Abs(k - frame_id) = Abs(j - frame_id) /\ k <= j)

\* C6: on a non-empty table, resolve returns the table's own list when
\* frame_id is a key, and otherwise the list of the key nearest to frame_id,
\* a tie going to the smaller key.
C6_NearestKeySmallerOnTie ==
    (pc = "resolved" /\ regions # <<>>) =>
        LET keys == DOMAIN frame_regions_map
        IN  resolve_result =
                Result("regions",
                       IF test_frame_id \in keys
                       THEN frame_regions_map[test_frame_id]
                       ELSE frame_regions_map[NearestKey(keys, test_frame_id)])

\* C6 witness: Scenario B, the table {10: [R1], 50: [R2]} resolved at 30 gives [R1].
C6_Witness ==
    /\ pc = "resolved"
    /\ regions = ScenarioB.regions
    /\ test_frame_id = ScenarioB.frame_id
    /\ resolve_result = Result("regions", <<Region(10, BoxR1)>>)

\* C7: while a video is rewritten with a non-empty region table, every decoded
\* frame is mosaicked with the regions the nearest-keyframe policy resolves
\* for its frame_id, so every output frame receives a mosaic.
C7_EveryFrameResolved ==
    apply_result.kind = "output_path" =>
        \A i \in DOMAIN out_frames :
            LET frame_id == FrameCountToFrameId(out_frames[i].index, regions)
                keys == DOMAIN frame_regions_map
            IN  /\ out_frames[i].regions # <<>>
                /\ out_frames[i].regions =
                      SimpleInterpolationFunc(frame_id, frame_regions_map,
                                              SortedSeq(keys)).value

\* C8: the sampler and the applier share one frame_id space: a sample taken
\* from decoded index i carries the frame_id the applier gives index i, so a
\* region carrying a sample's frame_id is mosaicked on the frame the sample
\* was taken from.
C8_SameFrameIdSpace ==
    /\ \A i \in DOMAIN frames :
          frames[i].frame_id = FrameCountToFrameId(frames[i].index, regions)
    /\ apply_result.kind = "output_path" =>
          \A r \in DOMAIN regions : \A i \in DOMAIN frames :
              frames[i].frame_id = regions[r].frame_id =>
                  \E k \in DOMAIN out_frames[frames[i].index + 1].regions :
                      out_frames[frames[i].index + 1].regions[k] = regions[r]

\* C9: for every integer bbox and every frame of width and height >= 1 the
\* clamp step yields 0 <= x, 0 <= y, x + w <= width, y + h <= height.
C9_ClampedInsideFrame ==
    pc = "mosaic_done" =>
        /\ 0 <= clamped[1]
        /\ 0 <= clamped[2]
        /\ clamped[1] + clamped[3] <= shape.width
        /\ clamped[2] + clamped[4] <= shape.height

\* C9 witness: a bbox with a negative origin coordinate, an origin coordinate
\* past the frame, a negative extent and an oversized extent was clamped.
C9_Witness ==
    /\ pc = "mosaic_done"
    /\ bbox[1] < 0
    /\ bbox[2] >= shape.height
    /\ bbox[3] < 0
    /\ bbox[4] > shape.height

\* C10: when the origin lies inside the frame and w, h >= 1, clamping keeps
\* the origin and yields w' = min(w, W - x), h' = min(h, H - y); the bbox
\* [0, 0, 10000, 10000] on a 1920 x 1080 frame becomes w = 1920, h = 1080.
C10_ClampKeepsOrigin ==
    /\ (/\ pc = "mosaic_done"
        /\ 0 <= bbox[1] /\ bbox[1] < shape.width
        /\ 0 <= bbox[2] /\ bbox[2] < shape.height
        /\ bbox[3] >= 1 /\ bbox[4] >= 1)
       => clamped = <<bbox[1], bbox[2],
                      Min(bbox[3], shape.width - bbox[1]),
                      Min(bbox[4], shape.height - bbox[2])>>
    /\ (pc = "mosaic_done" /\ bbox = ScenarioC.bbox /\ shape = ScenarioC.shape)
       => clamped = <<0, 0, 1920, 1080>>

\* C10 witness: Scenario C was clamped.
C10_Witness ==
    /\ pc = "mosaic_done"
    /\ bbox = ScenarioC.bbox
    /\ shape = ScenarioC.shape
    /\ clamped[3] = 1920
    /\ clamped[4] = 1080

\* C11: apply_mosaic_regions called with no regions raises VideoProcessingError
\* before the capture is constructed and before the writer is created: the
\* only step the call can take raises, no frame is decoded and no output file
\* exists.
C11_NoRegionsRaisesBeforeOpen ==
    regions = <<>> =>
        /\ ~ cap_opened
        /\ writer_args = NoWriter
        /\ ~ writer_open
        /\ mosaic_frame_count = 0
        /\ out_frames = <<>>
        /\ pc \in {"annotated", "apply_error"}
        /\ pc = "annotated" => ENABLED (ApplyNotFound \/ ApplyNoRegions)
        /\ pc = "apply_error" => apply_result = [kind |-> "error",
                                                 value |-> "VideoProcessingError"]

\* C11 witness: the call on an existing, openable video with frames and an
\* empty region list has raised.
C11_Witness ==
    /\ regions = <<>>
    /\ video.status = "ok"
    /\ Len(video.frames) > 0
    /\ pc = "apply_error"
    /\ apply_result.kind = "error"

C14_EmptyTableResolvesToNothing ==
    (pc = "resolved" /\ frame_regions_map = EmptyMap) =>
        resolve_result = Result("regions", <<>>)

FrameCheckDone == last_call.op = "validate_frame_extraction"
FromExtraction == frames # <<>> /\ extract_result = Result("frames", frames)

\* A defect of the claim's list: the expected count is given and differs, a
\* frame_id is outside [1, total_frames], a timestamp is outside
\* [0, duration], or an image file is missing.
C19_ListedDefect ==
    LET fs == extract_result.value
        total == Len(video.frames)
        expected == last_call.args.expected_count
    IN  \/ expected # 0 /\ Len(fs) # expected
        \/ \E i \in DOMAIN fs : fs[i].frame_id < 1 \/ fs[i].frame_id > total
        \/ \E i \in DOMAIN fs :
              \/ fs[i].timestamp[1] < 0
              \/ IF video.fps > 0
                 THEN fs[i].timestamp[1] * video.fps > total * fs[i].timestamp[2]
                 ELSE fs[i].timestamp[1] > 0
        \/ \E i \in DOMAIN fs : i \in DOMAIN file_state /\ file_state[i] = "missing"

\* Twice the deviation of gap i from the mean gap, and the mean gap, both
\* scaled by the number of gaps.
C19_Dev2(i) ==
    LET fs == extract_result.value
    IN  2 * Abs((Len(fs) - 1) * (fs[i + 1].frame_id - fs[i].frame_id)
                - (fs[Len(fs)].frame_id - fs[1].frame_id))
C19_GapSum == extract_result.value[Len(extract_result.value)].frame_id
              - extract_result.value[1].frame_id

\* Some gap deviates from the mean gap by more than 50%.
C19_GapOverHalf ==
    /\ Len(extract_result.value) > 1
    /\ \E i \in 1..(Len(extract_result.value) - 1) : C19_Dev2(i) > C19_GapSum

\* Some gap deviates from the mean gap by exactly 50%, and the mean gap is
\* not a binary fraction.
C19_GapAtHalf ==
    /\ Len(extract_result.value) > 1
    /\ \E i \in 1..(Len(extract_result.value) - 1) : C19_Dev2(i) = C19_GapSum
    /\ \A k \in 0..Len(extract_result.value) :
          (Abs(C19_GapSum) * 2^k) % (Len(extract_result.value) - 1) # 0

C17_LowCoverageFails ==
    last_call.op = "validate_llm_detection" =>
        LET sampled == {extract_result.value[i].frame_id : i \in DOMAIN extract_result.value}
            covered == {f \in sampled : \E i \in DOMAIN regions : regions[i].frame_id = f}
        IN  /\ last_call.result.stage = "llm_detection"
            /\ 2 * Cardinality(covered) < Cardinality(sampled) =>
                  /\ last_call.result.status = "fail"
                  /\ "coverage" \in last_call.result.issues

TrackingCheckDone == last_call.op = "validate_tracking_interpolation"

\* What the interpolation function answers for a test frame of the last call.
C18_Answer(f) ==
    CallInterpolationFunc(last_call.args.interpolation_func, f,
                          GroupRegionsByFrame(regions),
                          SortedSeq({regions[i].frame_id : i \in DOMAIN regions}))
C18_Empty(f) == C18_Answer(f) = Result("regions", <<>>)
C18_Raised == \E i \in DOMAIN last_call.args.test_frame_ids :
                  C18_Answer(last_call.args.test_frame_ids[i]).kind = "error"

\* One of the claim's four conditions holds: fewer than 2 distinct keyframes;
\* a gap between neighbouring keyframes above 30% of total_video_frames;
\* fewer than 90% of the test frames resolved to a non-empty result; more
\* than 5 consecutive test frames resolved to an empty result.
C18_Condition ==
    LET keys == {regions[i].frame_id : i \in DOMAIN regions}
        tests == last_call.args.test_frame_ids
        resolved == {i \in DOMAIN tests :
                        /\ C18_Answer(tests[i]).kind = "regions"
                        /\ C18_Answer(tests[i]).value # <<>>}
    IN  \/ Cardinality(keys) < 2
        \/ \E a, b \in keys :
              /\ a < b
              /\ ~ \E c \in keys : a < c /\ c < b
              /\ 10 * (b - a) > 3 * last_call.args.total_video_frames
        \/ 10 * Cardinality(resolved) < 9 * Len(tests)
        \/ \E i \in DOMAIN tests :
              /\ i + 5 \in DOMAIN tests
              /\ \A j \in i..(i + 5) : C18_Empty(tests[j])
              /\ \A j \in i..(i + 4) : tests[j + 1] = tests[j] + 1

\* C18 as stated: validate_tracking_interpolation returns fail whenever one
\* of the four conditions holds, and pass when none holds and the
\* interpolation function raised for no test frame.
C18_Original ==
    TrackingCheckDone =>
        /\ C18_Condition => last_call.result.status = "fail"
        /\ (~ C18_Condition /\ ~ C18_Raised) => last_call.result.status = "pass"

\* C18 amended: validate_tracking_interpolation returns fail whenever one of
\* the four conditions holds or no test frame is given, and pass when none
\* holds, at least one test frame is given and the interpolation function
\* raised for no test frame.
C18_FailOnConditions ==
    TrackingCheckDone =>
        /\ (C18_Condition \/ last_call.args.test_frame_ids = <<>>) =>
              last_call.result.status = "fail"
        /\ (~ C18_Condition /\ ~ C18_Raised
               /\ last_call.args.test_frame_ids # <<>>) =>
              last_call.result.status = "pass"

\* C18 witness: a call failed for the one reason that six consecutive test
\* frames resolved to nothing, with 90% of the test frames covered.
C18_Witness ==
    /\ TrackingCheckDone
    /\ Len(last_call.args.test_frame_ids) = 60
    /\ last_call.result.status = "fail"
    /\ last_call.result.issues = {"large_gap"}

\* C15: after any sequence of validate_* calls on one validator,
\* validation_results holds exactly one ValidationResult per call, in call
\* order, the calls that end early included: the list is the sequence of the
\* results the calls returned.
C15_OneResultPerCall == validation_results = call_log

\* C16: no validator operation raises: generate_validation_report returns its
\* summary normally whatever has been accumulated, zero results included.
C16_ReportReturnsNormally ==
    last_call.op = "generate_validation_report" => last_call.result.kind # "error"

\* What the pipeline owns: the video, the frame samples and their image files,
\* the detection regions, the region table, and everything apply_mosaic_regions
\* has done so far.
PipelineState == <<inputVars, pc, extractVars, applyVars, captureVars, file_state>>

ValidatorActed == last_call' # last_call \/ calls_left' # calls_left

ReportBuilt == last_call.op = "generate_validation_report"

\* C21: in every generated validation report, total equals the number of
\* accumulated results and equals passed + failed + warnings, and the
\* recommendations list holds the suggestion of a stage if and only if an
\* accumulated result of that stage has status fail, at most once per stage.
C21_ReportTotalsAndRecommendations ==
    ReportBuilt =>
        LET report == last_call.out
            recs == report.recommendations
            stages == {RecommendationStages[k] : k \in DOMAIN RecommendationStages}
                      \cup {validation_results[i].stage : i \in DOMAIN validation_results}
        IN  /\ report.total_tests = Len(validation_results)
            /\ report.total_tests = report.passed + report.failed + report.warnings
            /\ \A s \in stages :
                  (\E k \in DOMAIN recs : recs[k] = s)
                  <=> (\E i \in DOMAIN validation_results :
                          /\ validation_results[i].stage = s
                          /\ validation_results[i].status = "fail")
            /\ \A j, k \in DOMAIN recs : recs[j] = recs[k] => j = k

\* C21 witness: a report over one passed and one failed result, with the one
\* recommendation of the failed stage.
C21_Witness ==
    /\ ReportBuilt
    /\ last_call.out.passed = 1 /\ last_call.out.failed = 1
    /\ Len(last_call.out.recommendations) = 1
    /\ last_call.result.kind = "summary"

LacksRequiredField(entry) ==
    "frame_id" \notin DOMAIN entry \/ "bbox" \notin DOMAIN entry

C23_TableMatchesList ==
    pc \in {"resolve_ready", "resolved"} =>
        /\ DOMAIN frame_regions_map = {regions[i].frame_id : i \in DOMAIN regions}
        /\ \A k \in DOMAIN frame_regions_map :
              /\ frame_regions_map[k] # <<>>
              /\ frame_regions_map[k] = SelectSeq(regions, LAMBDA r : r.frame_id = k)

\* C23 witness: a table was built from a list that holds two different
\* regions of one frame_id.
C23_Witness ==
    /\ pc = "resolve_ready"
    /\ Len(regions) = 2
    /\ regions[1].frame_id = regions[2].frame_id
    /\ regions[1].bbox # regions[2].bbox
    /\ Len(frame_regions_map[regions[1].frame_id]) = 2

\* floor(n / 2) for n >= 0, by its defining inequalities
HalfOf(n) == CHOOSE k \in 0..n : 2 * k <= n /\ n < 2 * k + 2

\* C25: for every clamped region (w, h >= 1) and every integer strength the
\* mosaic block size is max(1, min(strength, floor(min(w, h) / 2))); it is at
\* least 1 and, for a strength in [5, 50], never larger than the strength.
C25_BlockSize ==
    pc = "mosaic_done" =>
        LET w == clamped[3]
            h == clamped[4]
            half == HalfOf(IF w <= h THEN w ELSE h)
            capped == IF strength <= half THEN strength ELSE half
        IN  /\ w >= 1 /\ h >= 1
            /\ mosaic_size = (IF capped >= 1 THEN capped ELSE 1)
            /\ mosaic_size >= 1
            /\ (5 <= strength /\ strength <= 50) => mosaic_size <= strength

\* C25 witness: a block size of 1 on a 2 x 2 region with strength 5, where
\* the half side is the smaller term.
C25_Witness ==
    /\ pc = "mosaic_done"
    /\ clamped[3] = 2 /\ clamped[4] = 2
    /\ strength = 5
    /\ mosaic_size = 1

\* Pixel p (0-based) lies in the clamped box of the i-th region done.
Covers(i, p) == roi_log[i].bbox[1] <= p /\ p < roi_log[i].bbox[1] + roi_log[i].bbox[3]

\* C24: on one frame the regions are mosaicked strictly in list order, each
\* reading the pixel content left by the regions before it: the i-th entry of
\* the log is the i-th region of the list, and every pixel of a region's input
\* is the output of the last earlier region covering that pixel, or the
\* pixel of the frame as handed in when no earlier region covers it.
C24_SequentialInPlace ==
    \A j \in DOMAIN roi_log :
        /\ roi_log[j].bbox = ClampBBox(regions[j].bbox,
                                       [width |-> Len(image0), height |-> 1])
        /\ \A p \in 0..(Len(image0) - 1) :
              Covers(j, p) =>
                 LET earlier == {i \in 1..(j - 1) : Covers(i, p)}
                     last == CHOOSE i \in earlier : \A k \in earlier : k <= i
                 IN  roi_log[j].roi[p - roi_log[j].bbox[1] + 1] =
                        (IF earlier = {} THEN image0[p + 1]
                         ELSE roi_log[last].mosaic[p - roi_log[last].bbox[1] + 1])

\* C24 witness: two overlapping regions A then B were mosaicked, B read in the
\* overlap something other than the original pixel, and the final frame
\* differs from the one the list in the order B then A produces.
C24_Witness ==
    /\ pc = "frame_done"
    /\ Len(roi_log) = 2
    /\ \E p \in 0..(Len(image0) - 1) :
          /\ Covers(1, p) /\ Covers(2, p)
          /\ roi_log[2].roi[p - roi_log[2].bbox[1] + 1] # image0[p + 1]
    /\ image # MosaicLoop(image0, <<regions[2], regions[1]>>, 1)

C28_SamplesKeepTheirFrames ==
    \A i \in DOMAIN frames :
        frame_files[i] = [run |-> 1, index |-> frames[i].index]

\* C29: the list enhance_annotation_with_tracking returns starts with every
\* seed region, unchanged and in the given order; what follows the seeds are
\* model-detected regions, none of them on a frame_id a seed is on; and when
\* the analysis fails the list is exactly the seed list.
Enhanced == pc \in {"enhanced", "tool_called", "annotated", "tool_error"}

C29_SeedsFirstThenOtherFrames ==
    Enhanced =>
        LET n == Len(seed_regions) IN
        /\ Len(enhanced_regions) >= n
        /\ SubSeq(enhanced_regions, 1, n) = seed_regions
        /\ \A i \in (n + 1)..Len(enhanced_regions) :
              /\ llm_result.kind = "regions"
              /\ \E j \in DOMAIN llm_result.value :
                    enhanced_regions[i] = MarkTracked(llm_result.value[j])
              /\ \A k \in 1..n : enhanced_regions[i].frame_id # seed_regions[k].frame_id
        /\ llm_result.kind = "error" => enhanced_regions = seed_regions

\* A seed on frame 1, a model-detected region on frame 1 and one on frame 3:
\* only the latter follows the seed.
C29_Witness ==
    /\ pc = "enhanced"
    /\ Len(seed_regions) = 1 /\ seed_regions[1].frame_id = 1
    /\ llm_result.kind = "regions" /\ Len(llm_result.value) = 2
    /\ llm_result.value[1].frame_id = 1 /\ llm_result.value[2].frame_id = 3
    /\ Len(enhanced_regions) = 2
    /\ enhanced_regions[2].frame_id = 3

\* C30 (as stated): in every annotation-type process_request call for a video,
\* (a) the mosaic tool is invoked only if a stored session with the same
\* video_path exists and the regions list loaded from it is non-empty; (b) a
\* call that finds such a session without regions creates no session and no
\* output; (c) a call that finds no session for the video creates exactly one;
\* (d) a call made when a session of the video holds a non-empty regions list
\* invokes the mosaic tool.
IsRequestStep == requests_left' = requests_left - 1

FoundSession == Matching(sessions, last_request'.video_path) # {}

CreatedOne ==
    /\ Len(sessions') = Len(sessions) + 1
    /\ SubSeq(sessions', 1, Len(sessions)) = sessions
    /\ sessions'[Len(sessions')].video_path = last_request'.video_path

MosaicOnlyWithRegions ==
    last_request'.mosaic_called =>
        /\ FoundSession
        /\ Len(last_request'.loaded) > 0

NoRegionsNoEffect ==
    (FoundSession /\ Len(last_request'.loaded) = 0) =>
        /\ Len(sessions') = Len(sessions)
        /\ ~last_request'.output

HoldsRegions(session) ==
    /\ session.regions_file # NoFile
    /\ Len(Get(session.regions_file, "regions", <<>>)) > 0

=============================================================================
